---- MODULE Spec2Model ----
(***************************************************************************)
(* The store of final-state (createStore / StoreClass): one state value,   *)
(* an action map, a registry of plugin handlers and a sequence of          *)
(* listeners.  JavaScript runs every task to completion, so one call of a  *)
(* store method is one action; a timer callback of a plugin handler and    *)
(* the promise reaction that settles the promise of a plugin dispatch are  *)
(* actions of their own.  The earlier Store, whose dispatch returns        *)
(* nothing and waits for async actions, is modelled next to it.            *)
(***************************************************************************)
EXTENDS Integers, Sequences, FiniteSets, TLC

(* ---------------------------- bounds ----------------------------------- *)

\* dispatch calls the application makes (nested dispatches come on top)
MaxCalls == 2
\* length of the listener sequence
MaxSubs == 2
\* length of the listener sequence where subscribing and unsubscribing are
\* what is looked at
MaxEntries == 3

(* ---------------------------- values ----------------------------------- *)

\* params?: K -- either absent (undefined) or a number
NoParams == [given |-> FALSE, v |-> 0]
Num(n) == [given |-> TRUE, v |-> n]
ParamValues == {NoParams, Num(10)}

\* the actions that read their params are dispatched with and without them
ParamsFor(action) ==
  IF action \in {"increaseA", "rxIncreaseA", "asyncIncreaseA"}
    THEN ParamValues ELSE {NoParams}

\* the absent property / absent map entry
Undefined == "undefined"

\* const initialState = { a: 1, b: 'good', c: true }; ref is the identity of
\* the object (=== compares it), the other fields are its contents; isPromise
\* tells a Promise object from a state object
initialState == [ref |-> 0, isPromise |-> FALSE, a |-> 1, b |-> "good", c |-> TRUE]

\* a Promise object: it has an identity and none of the properties a, b, c,
\* whose places hold nothing that is read
PromiseObject(r) == [ref |-> r, isPromise |-> TRUE, a |-> 0, b |-> "", c |-> FALSE]

\* the listener functions the application owns
ListenerIds == {"L1", "L2"}

\* a listener that dispatches from inside the notification
ReentrantIds == {"R"}

\* listeners that unsubscribe and subscribe from inside the notification
ResubscribingIds == {"U", "S"}

\* a listener that throws, and what it throws
ThrowingIds == {"T"}
ListenerError == "The listener failed."

\* plain action functions
ActionFns == {"increaseA", "toggleC", "doNothing", "failing"}

\* async action functions: async asyncIncreaseA(draftState, n = 1)
AsyncFns == {"asyncIncreaseA"}

\* an async action function that awaits and writes nothing to the draft
AsyncNoOpFns == {"asyncDoNothing"}

\* an entry of the action map: a function has no `handler` property
PlainEntry(fn) == [handler |-> Undefined, action |-> fn]
PluginEntry(h, a) == [handler |-> h, action |-> a]

\* const actions: ActionMap = { ... }
ActionMap ==
  [n \in {"increaseA", "toggleC", "doNothing", "failing", "rxIncreaseA",
          "pluginNonexistent", "rxActionWithError", "rxIncreaseThenFail",
          "rxNestedFailure"} |->
     CASE n = "rxIncreaseA" -> PluginEntry("rx", "rxIncreaseA")
       [] n = "pluginNonexistent" -> PluginEntry("nonexistent", "pluginNonexistent")
       [] n = "rxActionWithError" -> PluginEntry("rx", "rxActionWithError")
       [] n = "rxIncreaseThenFail" -> PluginEntry("rx", "rxIncreaseThenFail")
       [] n = "rxNestedFailure" -> PluginEntry("rx", "rxNestedFailure")
       [] OTHER -> PlainEntry(n)]

\* the action map with the async action in it
AsyncActionMap ==
  [n \in DOMAIN ActionMap \cup AsyncFns |->
     IF n \in DOMAIN ActionMap THEN ActionMap[n] ELSE PlainEntry(n)]

\* this.actions[action]
Lookup(map, name) == IF name \in DOMAIN map THEN map[name] ELSE PlainEntry(Undefined)

\* what the application dispatches by name
DispatchNames == DOMAIN ActionMap \cup {"nonexistent"}

\* the handler names the action map refers to; the application registers a
\* handler for 'rx' only
HandlerNames == {"rx", "nonexistent"}
RegisteredNames == {"rx"}
HandlerFns == {"rxHandler"}

(* ------------------------------ the name ------------------------------- *)

\* a string is the sequence of its characters; the name argument of the
\* constructor is absent (undefined) or a string
NoName == [given |-> FALSE, v |-> <<>>]
Name(s) == [given |-> TRUE, v |-> s]

\* the names the stores are constructed with: 'test', 'name', '' and none
NameArgs ==
  {NoName, Name(<<"t", "e", "s", "t">>), Name(<<"n", "a", "m", "e">>), Name(<<>>)}

\* the values Date.now() returns
Clock == {0, 9, 10, 1563}

DigitChars == <<"0", "1", "2", "3", "4", "5", "6", "7", "8", "9">>

\* `${n}` of a number that is not negative: its decimal digits
RECURSIVE ToDecimal(_)
ToDecimal(n) ==
  IF n < 10 THEN <<DigitChars[n + 1]>>
  ELSE ToDecimal(n \div 10) \o <<DigitChars[(n % 10) + 1]>>

\* the default name without the time of creation
DefaultNameConstant(now) ==
  <<"N", "O", "_", "N", "A", "M", "E", "_", "S", "T", "O", "R", "E">>

\* name: string = `NO_NAME_STORE_${Date.now()}`
DefaultName(now) ==
  <<"N", "O", "_", "N", "A", "M", "E", "_", "S", "T", "O", "R", "E", "_">> \o ToDecimal(now)

\* this.name = `Store[${name}]`
StoreName(arg, now) ==
  <<"S", "t", "o", "r", "e", "[">> \o (IF arg.given THEN arg.v ELSE DefaultName(now))
    \o <<"]">>

(* ------------------------- action functions ---------------------------- *)

\* the body of an action function run on a draft d of the state
ApplyAction(fn, d, params) ==
  CASE fn = "increaseA" ->
         [a |-> d.a + (IF params.given THEN params.v ELSE 1), c |-> d.c,
          threw |-> FALSE, err |-> ""]
    [] fn = "toggleC" -> [a |-> d.a, c |-> ~d.c, threw |-> FALSE, err |-> ""]
    [] fn = "doNothing" -> [a |-> d.a, c |-> d.c, threw |-> FALSE, err |-> ""]
    [] fn = "failing" -> [a |-> d.a + 1, c |-> d.c, threw |-> TRUE, err |-> "action failed"]
    [] fn = "asyncIncreaseA" ->
         [a |-> d.a + (IF params.given THEN params.v ELSE 1), c |-> d.c,
          threw |-> FALSE, err |-> ""]
    [] fn = "asyncDoNothing" -> [a |-> d.a, c |-> d.c, threw |-> FALSE, err |-> ""]

\* the identities of the state objects something still refers to
UsedRefs(W) ==
  {W.state.ref}
    \cup {W.log[i].prevState.ref : i \in DOMAIN W.log}
    \cup {W.log[i].getState.ref : i \in DOMAIN W.log}
    \cup {W.calls[i].stateAtCall.ref : i \in DOMAIN W.calls}
    \cup {W.calls[i].stateAtReturn.ref : i \in DOMAIN W.calls}

\* a new object is identical to no object in use
FreshRef(W) ==
  CHOOSE r \in 0..Cardinality(UsedRefs(W)) :
    r \notin UsedRefs(W) /\ \A q \in 0..(r - 1) : q \in UsedRefs(W)

\* the call of dispatch that is running: the innermost one that has not
\* returned
Running(W) ==
  CHOOSE i \in DOMAIN W.calls :
    ~W.calls[i].returned /\ \A j \in DOMAIN W.calls : ~W.calls[j].returned => j <= i

\* await sleep(...) in an async action: the rest of the action runs from a
\* timer
Resume_(fn, params) == [ev |-> "resume", name |-> fn, params |-> params]

\* produce writing what the recipe wrote into the base object itself
produceInPlace(W, fn, params) ==
  LET Wc == [W EXCEPT !.calls[Running(W)].produced = Append(@, W.state)]
      r == ApplyAction(fn, W.state, params)
  IN IF r.threw
       THEN [w |-> Wc, next |-> W.state, threw |-> TRUE, err |-> r.err]
       ELSE [w |-> Wc, next |-> [W.state EXCEPT !.a = r.a, !.c = r.c],
             threw |-> FALSE, err |-> ""]

\* produce(this.state, draftState => action(draftState, params)): the base
\* itself when the recipe changed nothing, a new object otherwise; the
\* recipe's exception passes through and the base is never altered.  An
\* async recipe returns a promise at its first await and produce returns a
\* Promise of the next state.  A base that is not draftable (a Promise) is
\* handed to the recipe as it is and returned
produce(W, fn, params) ==
  LET Wc == [W EXCEPT !.calls[Running(W)].produced = Append(@, W.state)]
  IN
  IF fn \in AsyncFns \cup AsyncNoOpFns
    THEN [w |-> [Wc EXCEPT !.timers = @ \cup {[call |-> Running(W),
                                               events |-> <<Resume_(fn, params)>>]}],
          next |-> PromiseObject(FreshRef(W)), threw |-> FALSE, err |-> ""]
  ELSE LET r == ApplyAction(fn, W.state, params)
  IN IF r.threw
       THEN [w |-> Wc, next |-> W.state, threw |-> TRUE, err |-> r.err]
       ELSE IF W.state.isPromise \/ (r.a = W.state.a /\ r.c = W.state.c)
         THEN [w |-> Wc, next |-> W.state, threw |-> FALSE, err |-> ""]
         ELSE [w |-> Wc,
               next |-> [ref |-> FreshRef(W), isPromise |-> FALSE,
                         a |-> r.a, b |-> W.state.b, c |-> r.c],
               threw |-> FALSE, err |-> ""]

\* pluginAction.action(params): the observable of a plugin action, as the
\* events it emits when subscribed and those it emits from its timer; the
\* action of pluginNonexistent returns no observable and subscribing fails
Next_(name, params) == [ev |-> "next", name |-> name, params |-> params]
Error_(msg) == [ev |-> "error", name |-> msg, params |-> NoParams]
Complete_ == [ev |-> "complete", name |-> "", params |-> NoParams]

Observable(action, params) ==
  LET n == IF params.given THEN params ELSE Num(1)
  IN CASE action = "rxIncreaseA" ->
            [sync |-> <<Next_("increaseA", n)>>,
             later |-> <<Next_("increaseA", NoParams), Complete_>>]
       [] action = "rxActionWithError" ->
            [sync |-> <<Error_("Something went wrong.")>>, later |-> <<>>]
       [] action = "rxIncreaseThenFail" ->
            [sync |-> <<Next_("increaseA", n)>>,
             later |-> <<Error_("Something went wrong.")>>]
       [] action = "rxNestedFailure" ->
            [sync |-> <<Next_("pluginNonexistent", NoParams), Complete_>>,
             later |-> <<>>]
       [] action = "pluginNonexistent" ->
            [sync |-> <<Error_("TypeError")>>, later |-> <<>>]
       [] OTHER -> [sync |-> <<Complete_>>, later |-> <<>>]

(* ------------------------------ state ---------------------------------- *)

VARIABLES
  state,           \* private state: T
  actions,         \* private actions: ActionMap
  actionHandlers,  \* private actionHandlers: { [name]: ActionHandler }
  listeners,       \* private listeners: Listener<T>[]
  calls,           \* the dispatch calls under observation and their promises
  log,             \* the listener invocations made for those calls
  timers,          \* pending timer callbacks of plugin handlers
  made,            \* number of dispatch calls the application has made
  unsubscribers,   \* the functions subscribe returned that the application kept
  storeName        \* public name: string

vars ==
  <<state, actions, actionHandlers, listeners, calls, log, timers, made, unsubscribers,
    storeName>>

\* the store and its surroundings as one value
World ==
  [state |-> state, actions |-> actions, actionHandlers |-> actionHandlers,
   listeners |-> listeners, calls |-> calls, log |-> log, timers |-> timers,
   unsubscribers |-> unsubscribers, name |-> storeName]

Install(W) ==
  /\ state' = W.state
  /\ actions' = W.actions
  /\ actionHandlers' = W.actionHandlers
  /\ listeners' = W.listeners
  /\ calls' = W.calls
  /\ log' = W.log
  /\ timers' = W.timers
  /\ unsubscribers' = W.unsubscribers
  /\ storeName' = W.name

(* ------------------------ listeners and commit -------------------------- *)

\* the index of the last entry identical to the listener
lastIndexOf(s, l) ==
  IF \E i \in DOMAIN s : s[i] = l
    THEN CHOOSE i \in DOMAIN s : s[i] = l /\ \A j \in (i + 1)..Len(s) : s[j] /= l
    ELSE 0

\* this.listeners.indexOf(listener), 0 standing for -1
indexOf(s, l) ==
  IF \E i \in DOMAIN s : s[i] = l
    THEN CHOOSE i \in DOMAIN s : s[i] = l /\ \A j \in 1..(i - 1) : s[j] /= l
    ELSE 0

\* this.listeners.splice(index): everything from the index on is removed
spliceToEnd(s, index) == [i \in 1..(index - 1) |-> s[i]]

\* this.listeners.splice(index, 1)
splice(s, index) == [i \in 1..(Len(s) - 1) |-> IF i < index THEN s[i] ELSE s[i + 1]]

\* subscribe leaving out a listener that is in the sequence already
subscribeUnique(W, l) ==
  IF \E i \in DOMAIN W.listeners : W.listeners[i] = l THEN W
  ELSE [W EXCEPT !.listeners = Append(@, l)]

\* subscribe and unSubscribe, called from inside a listener
subscribe(W, l) == [W EXCEPT !.listeners = Append(@, l)]

\* unSubscribe removing every entry identical to the listener
unSubscribeAll(W, l) == [W EXCEPT !.listeners = SelectSeq(@, LAMBDA x : x /= l)]

unSubscribe(W, l) ==
  LET index == indexOf(W.listeners, l)
  IN IF index >= 1 THEN [W EXCEPT !.listeners = splice(@, index)] ELSE W

RECURSIVE dispatch(_, _, _, _, _)

\* listener(type, prevState): what it is called with and what
\* store.getState() returns inside it are recorded.  The listeners of the
\* tests do nothing else; listener R dispatches 'toggleC' when it is told of
\* 'increaseA', listener U unsubscribes itself, listener S subscribes L2 and
\* listener T throws: its exception is on its way out of the call it was
\* invoked for
InvokeListener(W, l, type, prevState, id) ==
  LET W1 == [W EXCEPT !.log = Append(@, [listener |-> l, type |-> type,
                                         prevState |-> prevState,
                                         getState |-> W.state, call |-> id])]
  IN CASE l = "R" /\ type = "increaseA" -> dispatch(W1, TRUE, "toggleC", NoParams, id)
       [] l = "U" -> unSubscribe(W1, "U")
       [] l = "S" -> subscribe(W1, "L2")
       [] l = "T" -> [W1 EXCEPT !.calls[id].thrown = ListenerError]
       [] OTHER -> W1

\* forEach visiting the array from its end
RECURSIVE forEachBackwards(_, _, _, _, _, _)
forEachBackwards(W, k, len, type, prevState, id) ==
  IF k > len THEN W
  ELSE forEachBackwards(InvokeListener(W, W.listeners[len - k + 1], type, prevState, id),
                        k + 1, len, type, prevState, id)

\* forEach handing on what the last notification was given as prevState: the
\* previous state kept in one place for all dispatches
RECURSIVE forEachSharedPrev(_, _, _, _, _, _)
forEachSharedPrev(W, k, len, type, prevState, id) ==
  IF k > len THEN W
  ELSE IF k > Len(W.listeners) THEN forEachSharedPrev(W, k + 1, len, type, prevState, id)
  ELSE forEachSharedPrev(
         InvokeListener(W, W.listeners[k], type,
                        IF k = 1 \/ W.log = <<>> THEN prevState
                        ELSE W.log[Len(W.log)].prevState, id),
         k + 1, len, type, prevState, id)

\* this.listeners.forEach(...): indexes 1..len of the array as it is when
\* each index is reached; len is read once, before the first call; the
\* exception of a listener ends the loop
RECURSIVE forEach(_, _, _, _, _, _)
forEach(W, k, len, type, prevState, id) ==
  IF k > len \/ W.calls[id].thrown /= "" THEN W
  ELSE IF k > Len(W.listeners) THEN forEach(W, k + 1, len, type, prevState, id)
  ELSE forEach(InvokeListener(W, W.listeners[k], type, prevState, id),
               k + 1, len, type, prevState, id)

\* updateState without the comparison of the references
updateStateAlways(W, type, nextState, id) ==
  LET prevState == W.state
      W1 == [W EXCEPT !.state = nextState,
                      !.calls[id].committed = TRUE,
                      !.calls[id].listenersAtCommit = W.listeners]
  IN forEach(W1, 1, Len(W1.listeners), type, prevState, id)

\* updateState handing the listeners the state it has just stored
updateStatePassesNext(W, type, nextState, id) ==
  IF W.state.ref /= nextState.ref
    THEN LET W1 == [W EXCEPT !.state = nextState,
                             !.calls[id].committed = TRUE,
                             !.calls[id].listenersAtCommit = W.listeners]
         IN forEach(W1, 1, Len(W1.listeners), type, nextState, id)
    ELSE W

\* updateState invoking the listeners before it stores the next state
updateStateNotifiesFirst(W, type, nextState, id) ==
  IF W.state.ref /= nextState.ref
    THEN LET prevState == W.state
             W1 == [W EXCEPT !.calls[id].committed = TRUE,
                             !.calls[id].listenersAtCommit = W.listeners]
             W2 == forEach(W1, 1, Len(W1.listeners), type, prevState, id)
         IN [W2 EXCEPT !.state = nextState]
    ELSE W

\* private updateState(type, nextState)
updateState(W, type, nextState, id) ==
  IF W.state.ref /= nextState.ref
    THEN LET prevState == W.state
             W1 == [W EXCEPT !.state = nextState,
                             !.calls[id].committed = TRUE,
                             !.calls[id].listenersAtCommit = W.listeners]
         IN forEach(W1, 1, Len(W1.listeners), type, prevState, id)
    ELSE W

(* ------------------------------ dispatch -------------------------------- *)

\* resolve() and reject(e) of the promise dispatch returns: a settled promise
\* stays as it is
resolve(W, id) ==
  IF W.calls[id].promise = "pending"
    THEN [W EXCEPT !.calls[id].promise = "resolved", !.calls[id].stateAtSettle = W.state]
    ELSE W

reject(W, id, e) ==
  IF W.calls[id].promise = "pending"
    THEN [W EXCEPT !.calls[id].promise = "rejected", !.calls[id].error = e,
                   !.calls[id].stateAtSettle = W.state]
    ELSE W

\* new Error(`The handler '${anyAction.handler}' is not registered`)
NotRegistered(h) == "The handler '" \o h \o "' is not registered"

\* the promise a plugin handler returns
hresolve(W, id) ==
  IF W.calls[id].hp = "pending" THEN [W EXCEPT !.calls[id].hp = "resolved"] ELSE W

hreject(W, id, e) ==
  IF W.calls[id].hp = "pending"
    THEN [W EXCEPT !.calls[id].hp = "rejected", !.calls[id].herr = e] ELSE W

\* what is observed of one call of dispatch: among it what was registered
\* for its plugin action when it was called, the handlers that ran for it with
\* what they were given, the states produce was called on and what it wrote
\* to the console
NewCall(W, byName, action, params, parent) ==
  [byName |-> byName, action |-> action, params |-> params, parent |-> parent,
   path |-> "", stateAtCall |-> W.state, stateAtReturn |-> W.state,
   stateAtSettle |-> W.state, nextState |-> W.state, returned |-> FALSE,
   committed |-> FALSE, listenersAtCommit |-> <<>>,
   promise |-> "pending", promiseAtReturn |-> "pending", error |-> "",
   handler |-> Undefined, hp |-> "none", herr |-> "", handled |-> 0,
   notifiedAtReturn |-> 0,
   registered |-> IF byName /\ Lookup(W.actions, action).handler /= Undefined
                    THEN W.actionHandlers[Lookup(W.actions, action).handler]
                    ELSE Undefined,
   ran |-> <<>>, produced |-> <<>>, logged |-> <<>>, thrown |-> ""]

\* the identity of a new call
NewId(W) ==
  CHOOSE i \in 1..(Cardinality(DOMAIN W.calls) + 1) :
    i \notin DOMAIN W.calls /\ \A j \in 1..(i - 1) : j \in DOMAIN W.calls

RECURSIVE RunEvents(_, _, _)

\* the subscriber of the 'rx' handler: next dispatches, error rejects and
\* complete resolves the handler's promise; a closed subscriber gets nothing
RunEvents(W, id, evs) ==
  IF evs = <<>> \/ W.calls[id].hp /= "pending" THEN W
  ELSE LET e == Head(evs)
           W1 == CASE e.ev = "next" -> dispatch(W, TRUE, e.name, e.params, id)
                   [] e.ev = "error" -> hreject(W, id, e.name)
                   [] e.ev = "complete" -> hresolve(W, id)
       IN RunEvents(W1, id, Tail(evs))

\* a handler function has been called: which one and with what
Ran(fn, pluginAction, params) == [fn |-> fn, pluginAction |-> pluginAction, params |-> params]

\* the 'rx' handler calling pluginAction.action() without the params
rxHandlerDropsParams(W, id, pluginAction, params) ==
  LET obs == Observable(pluginAction.action, NoParams)
      W0 == [W EXCEPT !.calls[id].hp = "pending", !.calls[id].handled = @ + 1,
                      !.calls[id].ran = Append(@, Ran("rxHandler", pluginAction, params))]
      W1 == RunEvents(W0, id, obs.sync)
  IN IF obs.later /= <<>>
       THEN [W1 EXCEPT !.timers = @ \cup {[call |-> id, events |-> obs.later]}]
       ELSE W1

\* the 'rx' handler resolving its promise as soon as it has subscribed
rxHandlerResolvesEarly(W, id, pluginAction, params) ==
  LET obs == Observable(pluginAction.action, params)
      W0 == [W EXCEPT !.calls[id].hp = "pending", !.calls[id].handled = @ + 1,
                      !.calls[id].ran = Append(@, Ran("rxHandler", pluginAction, params))]
      W1 == hresolve(RunEvents(W0, id, obs.sync), id)
  IN IF obs.later /= <<>>
       THEN [W1 EXCEPT !.timers = @ \cup {[call |-> id, events |-> obs.later]}]
       ELSE W1

\* store.registerActionHandler('rx', (pluginAction, params) => new Promise(...))
rxHandler(W, id, pluginAction, params) ==
  LET obs == Observable(pluginAction.action, params)
      W0 == [W EXCEPT !.calls[id].hp = "pending", !.calls[id].handled = @ + 1,
                      !.calls[id].ran = Append(@, Ran("rxHandler", pluginAction, params))]
      W1 == RunEvents(W0, id, obs.sync)
  IN IF obs.later /= <<>>
       THEN [W1 EXCEPT !.timers = @ \cup {[call |-> id, events |-> obs.later]}]
       ELSE W1

RECURSIVE voidRunEvents(_, _, _)

\* the subscriber of the handler that returns nothing: next dispatches, error
\* and complete reach nothing of the store
voidRunEvents(W, id, evs) ==
  IF evs = <<>> THEN W
  ELSE LET e == Head(evs)
           W1 == IF e.ev = "next" THEN dispatch(W, TRUE, e.name, e.params, id) ELSE W
       IN voidRunEvents(W1, id, Tail(evs))

\* store.registerActionHandler('rx', (pluginAction, params) => {
\*   pluginAction.action(params).subscribe({ ... }); }): a handler of the
\* signature (pluginAction, params?) => void, which returns nothing
voidRxHandler(W, id, pluginAction, params) ==
  LET obs == Observable(pluginAction.action, params)
      W0 == [W EXCEPT !.calls[id].handled = @ + 1,
                      !.calls[id].ran = Append(@, Ran("voidRxHandler", pluginAction, params))]
      W1 == voidRunEvents(W0, id, obs.sync)
  IN IF obs.later /= <<>>
       THEN [W1 EXCEPT !.timers = @ \cup {[call |-> id, events |-> obs.later]}]
       ELSE W1

\* the subscriber a timer callback emits to is the one the handler of the
\* call subscribed
Subscriber(W, id, evs) ==
  IF W.calls[id].handler = "voidRxHandler" THEN voidRunEvents(W, id, evs)
  ELSE RunEvents(W, id, evs)

\* commit calling the action without the params
commitDropsParams(W, id, type, fn, params) ==
  LET p == produce(W, fn, NoParams)
  IN IF p.threw THEN reject(p.w, id, p.err)
     ELSE resolve(updateState([p.w EXCEPT !.calls[id].nextState = p.next],
                              type, p.next, id), id)

\* commit resolving the promise without updateState
commitSkipsUpdate(W, id, type, fn, params) ==
  LET p == produce(W, fn, params)
  IN IF p.threw THEN reject(p.w, id, p.err)
     ELSE resolve([p.w EXCEPT !.calls[id].nextState = p.next], id)

\* commit storing what the action had written when it threw
commitIgnoresThrow(W, id, type, fn, params) ==
  LET p == produce(W, fn, params)
      r == ApplyAction(fn, W.state, params)
      partial == [ref |-> FreshRef(W), isPromise |-> FALSE,
                  a |-> r.a, b |-> W.state.b, c |-> r.c]
  IN IF p.threw
       THEN reject(updateState([p.w EXCEPT !.calls[id].nextState = partial],
                               type, partial, id), id, p.err)
       ELSE resolve(updateState([p.w EXCEPT !.calls[id].nextState = p.next],
                                type, p.next, id), id)

\* commit reporting the name of the function it ran
commitNamesFunction(W, id, type, fn, params) ==
  LET p == produce(W, fn, params)
  IN IF p.threw THEN reject(p.w, id, p.err)
     ELSE resolve(updateState([p.w EXCEPT !.calls[id].nextState = p.next],
                              fn, p.next, id), id)

\* the executor is left: by resolve() when nothing was thrown, otherwise by
\* the exception, with which the Promise constructor rejects the promise
leave(W, id) ==
  IF W.calls[id].thrown /= "" THEN reject(W, id, W.calls[id].thrown)
  ELSE resolve(W, id)

\* commit resolving the promise although a listener has thrown
commitSwallowsListenerError(W, id, type, fn, params) ==
  LET p == produce(W, fn, params)
  IN IF p.threw THEN reject(p.w, id, p.err)
     ELSE resolve(updateState([p.w EXCEPT !.calls[id].nextState = p.next],
                              type, p.next, id), id)

\* the plain and the direct path: produce, updateState, resolve; an exception
\* of the action or of a listener leaves the executor before resolve() and
\* rejects the promise
commit(W, id, type, fn, params) ==
  LET p == produce(W, fn, params)
  IN IF p.threw THEN reject(p.w, id, p.err)
     ELSE leave(updateState([p.w EXCEPT !.calls[id].nextState = p.next],
                            type, p.next, id), id)

\* the unknown name treated as an error
onUnknownRejects(W, id) == reject(W, id, "The action is not exist.")

\* the unregistered handler passed over in silence
onUnregisteredSilent(W, id, h) == resolve(W, id)

\* if (theAction === undefined) { resolve(); return; }
onUnknown(W, id) == resolve(W, id)

\* reject(new Error(`The handler '...' is not registered`))
onUnregistered(W, id, h) == reject(W, id, NotRegistered(h))

\* the exception of undefined.then(...)
ThenOfUndefined == "TypeError"

\* the store notifying the listeners itself when the handler has returned
callHandlerNotifies(W, id, handler, pluginAction, params) ==
  LET W1 == CASE handler = "rxHandler" -> rxHandler(W, id, pluginAction, params)
              [] handler = "voidRxHandler" ->
                   reject(voidRxHandler(W, id, pluginAction, params), id, ThenOfUndefined)
  IN forEach(W1, 1, Len(W1.listeners), pluginAction.action, W.state, id)

\* the registered handler called without the params
callHandlerNoParams(W, id, handler, pluginAction, params) ==
  CASE handler = "rxHandler" -> rxHandler(W, id, pluginAction, NoParams)
    [] handler = "voidRxHandler" ->
         reject(voidRxHandler(W, id, pluginAction, NoParams), id, ThenOfUndefined)

\* handler(pluginAction, params).then(() => resolve()).catch(e => reject(e)):
\* the function registered is called; when it returns no promise, .then
\* fails on what it returned and the exception rejects the promise of dispatch
callHandler(W, id, handler, pluginAction, params) ==
  CASE handler = "rxHandler" -> rxHandler(W, id, pluginAction, params)
    [] handler = "voidRxHandler" ->
         reject(voidRxHandler(W, id, pluginAction, params), id, ThenOfUndefined)

\* the handler bound when the store was constructed: none
handlerAtConstruction(W, name) == Undefined

\* this.actionHandlers[pluginAction.handler]
lookupHandler(W, name) == W.actionHandlers[name]

\* the executor of the promise dispatch returns
executor(W, id, byName, action, params) ==
  IF byName THEN
    LET theAction == Lookup(W.actions, action)
    IN IF theAction.action = Undefined
         THEN onUnknown([W EXCEPT !.calls[id].path = "unknown"], id)
       ELSE IF theAction.handler /= Undefined
         THEN LET handler == lookupHandler(W, theAction.handler)
                  Wp == [W EXCEPT !.calls[id].path = "plugin",
                                  !.calls[id].handler = handler]
              IN IF handler /= Undefined
                   THEN callHandler(Wp, id, handler, theAction, params)
                   ELSE onUnregistered(Wp, id, theAction.handler)
       ELSE commit([W EXCEPT !.calls[id].path = "plain"], id, action,
                   theAction.action, params)
  ELSE commit([W EXCEPT !.calls[id].path = "direct"], id, "NO_TYPE", action, params)

\* the listener invocations made by one call
LogOf(L, id) == SelectSeq(L, LAMBDA e : e.call = id)

\* public dispatch(action, params): the call up to its return
dispatch(W, byName, action, params, parent) ==
  LET id == NewId(W)
      W0 == [W EXCEPT !.calls = (id :> NewCall(W, byName, action, params, parent)) @@ @]
      W1 == executor(W0, id, byName, action, params)
  IN [W1 EXCEPT !.calls[id].stateAtReturn = W1.state, !.calls[id].returned = TRUE,
                !.calls[id].promiseAtReturn = W1.calls[id].promise,
                !.calls[id].notifiedAtReturn = Len(LogOf(W1.log, id))]

(* ------------------------- the observation window ----------------------- *)

\* a call is over when its promise is settled and no timer of it is pending
Over(W, i) ==
  /\ W.calls[i].promise /= "pending"
  /\ \A t \in W.timers : t.call /= i

\* the calls that are over leave the observation when the application next
\* calls a method of the store
Forget(W) ==
  LET keep == {i \in DOMAIN W.calls : ~Over(W, i)}
  IN [W EXCEPT !.calls = [i \in keep |-> W.calls[i]],
               !.log = SelectSeq(W.log, LAMBDA e : e.call \in keep)]

(* ------------------------------ actions --------------------------------- *)

\* the constructor storing a copy of the initial state
InitCopiesState ==
  /\ state = [initialState EXCEPT !.ref = 1]
  /\ actions = ActionMap
  /\ actionHandlers = [h \in HandlerNames |-> Undefined]
  /\ listeners = <<>>
  /\ calls = <<>>
  /\ log = <<>>
  /\ timers = {}
  /\ made = 0
  /\ unsubscribers = {}
  /\ storeName = StoreName(Name(<<"t", "e", "s", "t">>), 0)

\* new StoreClass(initialState, actions, name)
Init ==
  /\ state = initialState
  /\ actions = ActionMap
  /\ actionHandlers = [h \in HandlerNames |-> Undefined]
  /\ listeners = <<>>
  /\ calls = <<>>
  /\ log = <<>>
  /\ timers = {}
  /\ made = 0
  /\ unsubscribers = {}
  /\ storeName = StoreName(Name(<<"t", "e", "s", "t">>), 0)

\* a promise reaction is queued: nothing but synchronous code runs before it
MicrotaskPending ==
  \E i \in DOMAIN calls :
    calls[i].promise = "pending" /\ calls[i].hp \in {"resolved", "rejected"}

\* the application calls store.dispatch(name, params)
Dispatch(name, params) ==
  /\ made < MaxCalls
  /\ made' = made + 1
  /\ Install(dispatch(Forget(World), TRUE, name, params, 0))

\* the application calls store.dispatch(fn, params)
DispatchFn(fn, params) ==
  /\ made < MaxCalls
  /\ made' = made + 1
  /\ Install(dispatch(Forget(World), FALSE, fn, params, 0))

\* public subscribe(listener)
Subscribe(l) ==
  /\ Len(listeners) < MaxSubs
  /\ listeners' = Append(listeners, l)
  /\ calls' = Forget(World).calls
  /\ log' = Forget(World).log
  /\ UNCHANGED <<state, actions, actionHandlers, timers, made, unsubscribers, storeName>>

\* public unSubscribe(listener)
UnSubscribe(l) ==
  /\ LET index == indexOf(listeners, l)
     IN listeners' = IF index >= 1 THEN splice(listeners, index) ELSE listeners
  /\ calls' = Forget(World).calls
  /\ log' = Forget(World).log
  /\ UNCHANGED <<state, actions, actionHandlers, timers, made, unsubscribers, storeName>>

\* public registerActionHandler(name, handler)
RegisterActionHandler(name, handler) ==
  /\ actionHandlers' = [actionHandlers EXCEPT ![name] = handler]
  /\ calls' = Forget(World).calls
  /\ log' = Forget(World).log
  /\ UNCHANGED <<state, actions, listeners, timers, made, unsubscribers, storeName>>

\* the setTimeout callback of an observable runs
TimerFire(t) ==
  /\ ~MicrotaskPending
  /\ t.events[1].ev /= "resume"
  /\ Install(Subscriber([World EXCEPT !.timers = @ \ {t}], t.call, t.events))
  /\ UNCHANGED made

\* the reaction resolving the promise whatever became of the handler's
SettleAlwaysResolves(i) ==
  /\ calls[i].promise = "pending"
  /\ calls[i].hp \in {"resolved", "rejected"}
  /\ Install(resolve(World, i))
  /\ UNCHANGED made

\* handler(pluginAction, params).then(() => resolve()) without the catch
SettleOnlyResolved(i) ==
  /\ calls[i].promise = "pending"
  /\ calls[i].hp = "resolved"
  /\ Install(resolve(World, i))
  /\ UNCHANGED made

\* handler(pluginAction, params).then(() => resolve()).catch(e => reject(e))
SettleFromHandler(i) ==
  /\ calls[i].promise = "pending"
  /\ calls[i].hp \in {"resolved", "rejected"}
  /\ Install(IF calls[i].hp = "resolved" THEN resolve(World, i)
             ELSE reject(World, i, calls[i].herr))
  /\ UNCHANGED made

Next ==
  \/ \E name \in DispatchNames : \E params \in ParamsFor(name) : Dispatch(name, params)
  \/ \E fn \in ActionFns : \E params \in ParamsFor(fn) : DispatchFn(fn, params)
  \/ \E l \in ListenerIds : Subscribe(l)
  \/ \E l \in ListenerIds : UnSubscribe(l)
  \/ \E name \in RegisteredNames, handler \in HandlerFns : RegisterActionHandler(name, handler)
  \/ \E t \in timers : TimerFire(t)
  \/ \E i \in DOMAIN calls : SettleFromHandler(i)

Spec == Init /\ [][Next]_vars

(* --------------------- the store with an async action ------------------- *)

\* new StoreClass(initialState, actions, name), the action map holding an
\* async action
InitAsync ==
  /\ state = initialState
  /\ actions = AsyncActionMap
  /\ actionHandlers = [h \in HandlerNames |-> Undefined]
  /\ listeners = <<>>
  /\ calls = <<>>
  /\ log = <<>>
  /\ timers = {}
  /\ made = 0
  /\ unsubscribers = {}
  /\ storeName = StoreName(Name(<<"t", "e", "s", "t">>), 0)

\* the timer of an async action runs: the action writes the draft and ends,
\* and the Promise produce returned resolves to the next state, which
\* nothing of the store is waiting for
AsyncResume(t) ==
  /\ ~MicrotaskPending
  /\ t.events[1].ev = "resume"
  /\ timers' = timers \ {t}
  /\ UNCHANGED <<state, actions, actionHandlers, listeners, calls, log, made,
                 unsubscribers, storeName>>

NextAsync ==
  \/ Next
  \/ \E fn \in AsyncFns : \E params \in ParamsFor(fn) : Dispatch(fn, params)
  \/ \E fn \in AsyncFns : \E params \in ParamsFor(fn) : DispatchFn(fn, params)
  \/ \E t \in timers : AsyncResume(t)

SpecAsync == InitAsync /\ [][NextAsync]_vars

(* ------------- listeners that call the store while notified ------------ *)

\* the application dispatches plain actions, by name and by function, and
\* subscribes a listener that dispatches among those that only look
NextReentrant ==
  \/ \E name \in ActionFns \cup {"nonexistent"} : \E params \in ParamsFor(name) :
       Dispatch(name, params)
  \/ \E fn \in ActionFns : \E params \in ParamsFor(fn) : DispatchFn(fn, params)
  \/ \E l \in ListenerIds \cup ReentrantIds : Subscribe(l)
  \/ \E l \in ListenerIds \cup ReentrantIds : UnSubscribe(l)

SpecReentrant == Init /\ [][NextReentrant]_vars

\* the application dispatches plain actions and subscribes a listener that
\* throws among those that only look
ThrowingFns == {"increaseA", "toggleC", "doNothing"}

NextThrowing ==
  \/ \E name \in ThrowingFns : \E params \in ParamsFor(name) : Dispatch(name, params)
  \/ \E fn \in ThrowingFns : \E params \in ParamsFor(fn) : DispatchFn(fn, params)
  \/ \E l \in ListenerIds \cup ThrowingIds : Subscribe(l)
  \/ \E l \in ListenerIds \cup ThrowingIds : UnSubscribe(l)

SpecThrowing == Init /\ [][NextThrowing]_vars

\* the same with listeners that unsubscribe and subscribe while notified
NextResubscribe ==
  \/ \E name \in ActionFns \cup {"nonexistent"} : \E params \in ParamsFor(name) :
       Dispatch(name, params)
  \/ \E fn \in ActionFns : \E params \in ParamsFor(fn) : DispatchFn(fn, params)
  \/ \E l \in ListenerIds \cup ResubscribingIds : Subscribe(l)
  \/ \E l \in ListenerIds \cup ResubscribingIds : UnSubscribe(l)

SpecResubscribe == Init /\ [][NextResubscribe]_vars

(* ------------- every notification of a run under observation ------------ *)

\* the application calls store.dispatch(name) and store.dispatch(fn); what the
\* calls before it did stays under observation
DispatchObserved(name) ==
  /\ made < MaxCalls
  /\ made' = made + 1
  /\ Install(dispatch(World, TRUE, name, NoParams, 0))

DispatchFnObserved(fn) ==
  /\ made < MaxCalls
  /\ made' = made + 1
  /\ Install(dispatch(World, FALSE, fn, NoParams, 0))

\* public subscribe(listener) and unSubscribe(listener), likewise
SubscribeObserved(l) ==
  /\ Len(listeners) < MaxSubs
  /\ Install(subscribe(World, l))
  /\ UNCHANGED made

UnSubscribeObserved(l) ==
  /\ Install(unSubscribe(World, l))
  /\ UNCHANGED made

\* plain actions dispatched by name and by function, with a listener that
\* dispatches and stays subscribed and one that only looks and is unsubscribed
\* at times
OrderNames == {"increaseA", "toggleC"}
OrderFns == {"increaseA"}
OrderListeners == {"L1", "R"}

NextOrder ==
  \/ \E name \in OrderNames : DispatchObserved(name)
  \/ \E fn \in OrderFns : DispatchFnObserved(fn)
  \/ \E l \in OrderListeners : SubscribeObserved(l)
  \/ \E l \in OrderListeners \cap ListenerIds : UnSubscribeObserved(l)

SpecOrder == Init /\ [][NextOrder]_vars

(* --------------- the function that subscribe returns -------------------- *)

\* const unsubscribe = store.subscribe(listener): the application keeps the
\* function that subscribe returns
SubscribeKeep(l) ==
  /\ Len(listeners) < MaxEntries
  /\ Install([subscribe(Forget(World), l) EXCEPT !.unsubscribers = @ \cup {l}])
  /\ UNCHANGED made

\* unsubscribe(): () => this.unSubscribe(listener)
Unsubscribe(l) ==
  /\ l \in unsubscribers
  /\ Install(unSubscribe(Forget(World), l))
  /\ UNCHANGED made

\* the application dispatches plain actions, subscribes and keeps the
\* function returned, and unsubscribes either way
NextSubscribe ==
  \/ \E name \in ActionFns \cup {"nonexistent"} : \E params \in ParamsFor(name) :
       Dispatch(name, params)
  \/ \E fn \in ActionFns : \E params \in ParamsFor(fn) : DispatchFn(fn, params)
  \/ \E l \in ListenerIds : SubscribeKeep(l)
  \/ \E l \in ListenerIds : UnSubscribe(l)
  \/ \E l \in ListenerIds : Unsubscribe(l)

SpecSubscribe == Init /\ [][NextSubscribe]_vars

(* --------------------- stores of different names ------------------------ *)

\* new StoreClass(initialState, actions, name) and new StoreClass(initialState,
\* actions) at some time
InitNamed ==
  /\ state = initialState
  /\ actions = ActionMap
  /\ actionHandlers = [h \in HandlerNames |-> Undefined]
  /\ listeners = <<>>
  /\ calls = <<>>
  /\ log = <<>>
  /\ timers = {}
  /\ made = 0
  /\ unsubscribers = {}
  /\ \E arg \in NameArgs, now \in Clock : storeName = StoreName(arg, now)

\* the application dispatches, subscribes, unsubscribes and registers
NextNamed ==
  \/ \E n \in {"increaseA", "toggleC", "nonexistent"} : \E params \in ParamsFor(n) :
       Dispatch(n, params)
  \/ \E fn \in {"increaseA"} : \E params \in ParamsFor(fn) : DispatchFn(fn, params)
  \/ \E l \in ListenerIds : Subscribe(l)
  \/ \E l \in ListenerIds : UnSubscribe(l)
  \/ \E h \in RegisteredNames, handler \in HandlerFns : RegisterActionHandler(h, handler)

SpecNamed == InitNamed /\ [][NextNamed]_vars

(* ------------------ handlers registered and replaced -------------------- *)

\* the handler functions the application has: the one of the tests, which
\* returns a promise, and one that returns nothing
AllHandlerFns == {"rxHandler", "voidRxHandler"}

\* what the application dispatches by name here: the plugin actions
HandlerDispatchNames == {"rxIncreaseA", "rxActionWithError", "pluginNonexistent"}

\* public getState(): the store after the call and what the call returns
getState(W) == [w |-> W, value |-> W.state]

\* registerActionHandler starting the store's subscriptions afresh
registerClearsListeners(W, name, handler) ==
  [W EXCEPT !.actionHandlers[name] = handler, !.listeners = <<>>]

\* registerActionHandler keeping the handler registered first
registerKeepsFirst(W, name, handler) ==
  [W EXCEPT !.actionHandlers[name] = IF @ = Undefined THEN handler ELSE @]

\* this.actionHandlers[name] = handler
registerActionHandler(W, name, handler) == [W EXCEPT !.actionHandlers[name] = handler]

\* public registerActionHandler(name, handler), seen together with the
\* dispatches made before it: their promises are still looked at
RegisterKept(name, handler) ==
  /\ Install(registerActionHandler(World, name, handler))
  /\ UNCHANGED made

\* the application registers either handler function under either handler
\* name, before and after dispatching, and replaces what it registered
NextHandlers ==
  \/ \E name \in HandlerDispatchNames : \E params \in ParamsFor(name) :
       Dispatch(name, params)
  \/ \E name \in HandlerNames, handler \in AllHandlerFns : RegisterKept(name, handler)
  \/ \E t \in timers : TimerFire(t)
  \/ \E i \in DOMAIN calls : SettleFromHandler(i)

SpecHandlers == Init /\ [][NextHandlers]_vars

\* the application dispatches along every path of dispatch, with a listener
\* that throws among the listeners and with a handler that returns a promise
\* or one that returns nothing registered for 'rx'
SettleNames ==
  {"nonexistent", "toggleC", "failing", "pluginNonexistent", "rxIncreaseA",
   "rxActionWithError"}
SettleFns == {"toggleC"}
SettleListeners == {"L1", "T"}

NextSettle ==
  \/ \E name \in SettleNames : Dispatch(name, NoParams)
  \/ \E fn \in SettleFns : DispatchFn(fn, NoParams)
  \/ \E l \in SettleListeners : Subscribe(l)
  \/ \E l \in SettleListeners : UnSubscribe(l)
  \/ \E name \in RegisteredNames, handler \in AllHandlerFns :
       RegisterActionHandler(name, handler)
  \/ \E t \in timers : TimerFire(t)
  \/ \E i \in DOMAIN calls : SettleFromHandler(i)

\* the reaction of a settled promise is a job of the microtask queue, which
\* the engine runs when the synchronous code has returned
SpecSettle ==
  /\ Init /\ [][NextSettle]_vars
  /\ WF_vars(\E i \in DOMAIN calls : SettleFromHandler(i))

(* ------------- the earlier Store: dispatch returns nothing ------------- *)

\* const actions = { ... } of the tests of the earlier Store
Store_ActionMap ==
  [n \in {"increaseA", "toggleC", "asyncIncreaseA", "doNothing", "rxIncreaseA",
          "pluginNonexistent"} |->
     CASE n = "rxIncreaseA" -> PluginEntry("rx", "rxIncreaseA")
       [] n = "pluginNonexistent" -> PluginEntry("nonexistent", "pluginNonexistent")
       [] OTHER -> PlainEntry(n)]

\* what the application dispatches by name and by function
Store_DispatchNames == DOMAIN Store_ActionMap \cup {"nonexistent"}
Store_ActionFns == {"increaseA", "toggleC", "doNothing", "asyncIncreaseA"}

\* private triggerListeners(type, nextState)
triggerListeners(W, type, nextState, id) ==
  IF W.state.ref /= nextState.ref
    THEN LET prevState == W.state
             W1 == [W EXCEPT !.state = nextState,
                             !.calls[id].committed = TRUE,
                             !.calls[id].listenersAtCommit = W.listeners]
         IN forEach(W1, 1, Len(W1.listeners), type, prevState, id)
    ELSE W

\* the plain and the direct path: produce, then triggerListeners at once or,
\* when produce returned a Promise, from its then; an exception of the action
\* leaves dispatch
Store_commit(W, id, type, fn, params) ==
  LET p == produce(W, fn, params)
  IN IF p.threw THEN [p.w EXCEPT !.calls[id].error = p.err]
     ELSE IF p.next.isPromise THEN p.w
     ELSE triggerListeners([p.w EXCEPT !.calls[id].nextState = p.next],
                           type, p.next, id)

RECURSIVE Store_dispatch(_, _, _, _, _), Store_RunEvents(_, _, _)

\* the subscriber of the 'rx' handler: next dispatches, complete only logs
Store_RunEvents(W, id, evs) ==
  IF evs = <<>> THEN W
  ELSE LET e == Head(evs)
           W1 == IF e.ev = "next" THEN Store_dispatch(W, TRUE, e.name, e.params, id)
                 ELSE W
       IN Store_RunEvents(W1, id, Tail(evs))

\* store.registerActionHandler('rx', (pluginAction, params) => { ... })
Store_rxHandler(W, id, pluginAction, params) ==
  LET obs == Observable(pluginAction.action, params)
      W0 == [W EXCEPT !.calls[id].handled = @ + 1,
                      !.calls[id].ran = Append(@, Ran("Store_rxHandler", pluginAction, params))]
      W1 == Store_RunEvents(W0, id, obs.sync)
  IN IF obs.later /= <<>>
       THEN [W1 EXCEPT !.timers = @ \cup {[call |-> id, events |-> obs.later]}]
       ELSE W1

\* the diagnostic of the earlier Store for a name that is not in the action map
NotExist(action) == "The action '" \o action \o "' is not exist."

\* the unknown name passing without a word
Store_onUnknownSilent(W, id, action) ==
  [W EXCEPT !.calls[id].path = "unknown"]

\* if (theAction === undefined) { console.error(...); return; }
Store_onUnknown(W, id, action) ==
  [W EXCEPT !.calls[id].path = "unknown",
            !.calls[id].logged = Append(@, NotExist(action))]

\* if (handler !== undefined) { ... } without an else: nothing is done
Store_onUnregistered(W, id, h) == W

\* public dispatch(action, params): void
Store_dispatch(W, byName, action, params, parent) ==
  LET id == NewId(W)
      W0 == [W EXCEPT !.calls =
               (id :> [NewCall(W, byName, action, params, parent)
                         EXCEPT !.promise = "none", !.promiseAtReturn = "none"]) @@ @]
      theAction == Lookup(W.actions, action)
      W1 ==
        IF byName THEN
          IF theAction.action = Undefined
            THEN Store_onUnknown(W0, id, action)
          ELSE IF theAction.handler /= Undefined
            THEN LET handler == W.actionHandlers[theAction.handler]
                     Wp == [W0 EXCEPT !.calls[id].path = "plugin",
                                      !.calls[id].handler = handler]
                 IN IF handler /= Undefined
                      THEN Store_rxHandler(Wp, id, theAction, params)
                      ELSE Store_onUnregistered(Wp, id, theAction.handler)
          ELSE Store_commit([W0 EXCEPT !.calls[id].path = "plain"], id, action,
                            theAction.action, params)
        ELSE Store_commit([W0 EXCEPT !.calls[id].path = "direct"], id, "NO_TYPE",
                          action, params)
  IN [W1 EXCEPT !.calls[id].stateAtReturn = W1.state, !.calls[id].returned = TRUE,
                !.calls[id].notifiedAtReturn = Len(LogOf(W1.log, id))]

\* the next state an async action leaves: the draft was made of the state
\* stored when produce was called
AsyncResult(W, base, fn, params) ==
  LET r == ApplyAction(fn, base, params)
  IN IF r.a = base.a /\ r.c = base.c THEN base
     ELSE [ref |-> FreshRef(W), isPromise |-> FALSE, a |-> r.a, b |-> base.b, c |-> r.c]

\* the then of the Promise taking the state stored now for the draft
Store_thenRebased(W, t) ==
  LET id == t.call
      e == t.events[1]
      next == AsyncResult(W, W.state, e.name, e.params)
      W1 == [W EXCEPT !.timers = @ \ {t}, !.calls[id].nextState = next]
  IN triggerListeners(W1, IF W.calls[id].byName THEN W.calls[id].action ELSE "NO_TYPE",
                      next, id)

\* nextState.then(state => this.triggerListeners(action, state)), run when
\* the async action has finished
Store_then(W, t) ==
  LET id == t.call
      e == t.events[1]
      next == AsyncResult(W, W.calls[id].stateAtCall, e.name, e.params)
      W1 == [W EXCEPT !.timers = @ \ {t}, !.calls[id].nextState = next]
  IN triggerListeners(W1, IF W.calls[id].byName THEN W.calls[id].action ELSE "NO_TYPE",
                      next, id)

\* new Store(initialState, actions, name)
InitStore ==
  /\ state = initialState
  /\ actions = Store_ActionMap
  /\ actionHandlers = [h \in HandlerNames |-> Undefined]
  /\ listeners = <<>>
  /\ calls = <<>>
  /\ log = <<>>
  /\ timers = {}
  /\ made = 0
  /\ unsubscribers = {}
  /\ storeName = StoreName(Name(<<"t", "e", "s", "t">>), 0)

\* the application calls store.dispatch(name, params)
Store_Dispatch(name, params) ==
  /\ made < MaxCalls
  /\ made' = made + 1
  /\ Install(Store_dispatch(Forget(World), TRUE, name, params, 0))

\* the application calls store.dispatch(fn, params)
Store_DispatchFn(fn, params) ==
  /\ made < MaxCalls
  /\ made' = made + 1
  /\ Install(Store_dispatch(Forget(World), FALSE, fn, params, 0))

\* the setTimeout callback of an observable runs
Store_TimerFire(t) ==
  /\ t.events[1].ev /= "resume"
  /\ Install(Store_RunEvents([World EXCEPT !.timers = @ \ {t}], t.call, t.events))
  /\ UNCHANGED made

\* the timer of an async action runs: the action ends, the Promise of produce
\* resolves and its then commits
Store_AsyncResume(t) ==
  /\ t.events[1].ev = "resume"
  /\ Install(Store_then(World, t))
  /\ UNCHANGED made

\* subscribe, unSubscribe and registerActionHandler of the earlier Store
\* change the listeners and the handlers as those of StoreClass do
NextStore ==
  \/ \E name \in Store_DispatchNames : \E params \in ParamsFor(name) :
       Store_Dispatch(name, params)
  \/ \E fn \in Store_ActionFns : \E params \in ParamsFor(fn) : Store_DispatchFn(fn, params)
  \/ \E l \in ListenerIds : Subscribe(l)
  \/ \E l \in ListenerIds : UnSubscribe(l)
  \/ \E name \in RegisteredNames, handler \in HandlerFns : RegisterActionHandler(name, handler)
  \/ \E t \in timers : Store_TimerFire(t)
  \/ \E t \in timers : Store_AsyncResume(t)

SpecStore == InitStore /\ [][NextStore]_vars

\* the earlier Store with an async action that writes nothing among its
\* actions: dispatches of it, by name and by function, between dispatches of
\* actions that write
Store_NoOpActionMap ==
  [n \in {"increaseA", "toggleC", "doNothing", "asyncDoNothing"} |-> PlainEntry(n)]

Store_NoOpFns == {"asyncDoNothing", "doNothing"}

InitStoreNoOp ==
  /\ state = initialState
  /\ actions = Store_NoOpActionMap
  /\ actionHandlers = [h \in HandlerNames |-> Undefined]
  /\ listeners = <<>>
  /\ calls = <<>>
  /\ log = <<>>
  /\ timers = {}
  /\ made = 0
  /\ unsubscribers = {}
  /\ storeName = StoreName(Name(<<"t", "e", "s", "t">>), 0)

NextStoreNoOp ==
  \/ \E name \in DOMAIN Store_NoOpActionMap : \E params \in ParamsFor(name) :
       Store_Dispatch(name, params)
  \/ \E fn \in Store_NoOpFns : Store_DispatchFn(fn, NoParams)
  \/ \E l \in ListenerIds : Subscribe(l)
  \/ \E t \in timers : Store_AsyncResume(t)

SpecStoreNoOp == InitStoreNoOp /\ [][NextStoreNoOp]_vars

(* ============================== claims ================================== *)

\* the calls of dispatch that took the plain or the direct path and returned
Plain(i) == calls[i].returned /\ calls[i].path \in {"plain", "direct"}

\* the type a call reports to the listeners
TypeOf(i) == IF calls[i].byName THEN calls[i].action ELSE "NO_TYPE"

\* the listeners a call invoked, in the order of their invocation
Invoked(i) == [k \in 1..Len(LogOf(log, i)) |-> LogOf(log, i)[k].listener]

\* a plain dispatch that produced a new state
Changing(i) == Plain(i) /\ calls[i].nextState.ref /= calls[i].stateAtCall.ref

\* C1: a dispatch whose produced state differs in reference from the stored
\* one replaces the stored state and then invokes every listener of the
\* sequence exactly once, in subscription order, each with the same
\* (actionName, previousState), previousState being the state stored before
C1_CommitNotifiesAllInOrder ==
  \A i \in DOMAIN calls :
    Changing(i) =>
      /\ calls[i].committed
      /\ calls[i].stateAtReturn = calls[i].nextState
      /\ Invoked(i) = calls[i].listenersAtCommit
      /\ \A k \in 1..Len(LogOf(log, i)) :
           /\ LogOf(log, i)[k].type = TypeOf(i)
           /\ LogOf(log, i)[k].prevState = calls[i].stateAtCall
           /\ LogOf(log, i)[k].getState = calls[i].nextState

\* two listeners subscribed in the order L1, L2 and one dispatch that changed
\* the state
C1_Witness ==
  \E i \in DOMAIN calls :
    /\ Changing(i)
    /\ calls[i].listenersAtCommit = <<"L1", "L2">>
    /\ Invoked(i) = <<"L1", "L2">>
    /\ LogOf(log, i)[1].prevState = LogOf(log, i)[2].prevState

\* C2: a dispatch, by name or by function, whose action does not change the
\* state reference invokes no listener and leaves getState() returning the
\* same reference
C2_NoChangeNoNotification ==
  \A i \in DOMAIN calls :
    (Plain(i) /\ calls[i].nextState.ref = calls[i].stateAtCall.ref) =>
      /\ ~calls[i].committed
      /\ LogOf(log, i) = <<>>
      /\ calls[i].stateAtReturn.ref = calls[i].stateAtCall.ref
      /\ calls[i].notifiedAtReturn = 0

\* the second of two dispatches of doNothing, with a listener subscribed
C2_Witness ==
  \E i \in DOMAIN calls :
    /\ Plain(i)
    /\ calls[i].action = "doNothing"
    /\ made = 2
    /\ state = initialState
    /\ listeners /= <<>>
    /\ log = <<>>

\* the increment increaseA(draft, n = 1) is called with
Increment(params) == IF params.given THEN params.v ELSE 1

\* C3: dispatch('increaseA', params) applies increaseA(draft, params) to the
\* current state with the params unchanged: a grows by the supplied increment,
\* by 1 when none is supplied, and nothing else changes
C3_ParamsForwarded ==
  \A i \in DOMAIN calls :
    (Plain(i) /\ calls[i].byName /\ calls[i].action = "increaseA") =>
      /\ calls[i].stateAtReturn.a = calls[i].stateAtCall.a + Increment(calls[i].params)
      /\ calls[i].stateAtReturn.b = calls[i].stateAtCall.b
      /\ calls[i].stateAtReturn.c = calls[i].stateAtCall.c
      /\ (calls[i].stateAtCall.a = 1 /\ ~calls[i].params.given =>
            calls[i].stateAtReturn.a = 2)
      /\ (calls[i].stateAtCall.a = 2 /\ calls[i].params = Num(10) =>
            calls[i].stateAtReturn.a = 12)

\* dispatch('increaseA') and then dispatch('increaseA', 10), from a = 1
C3_Witness ==
  \E i \in DOMAIN calls :
    /\ Plain(i) /\ calls[i].byName /\ calls[i].action = "increaseA"
    /\ calls[i].params = Num(10)
    /\ calls[i].stateAtCall.a = 2
    /\ made = 2
    /\ state.a = 12

\* C4: the commit and the notifications of a synchronous plain action are
\* done when dispatch returns: getState() then returns the new state and
\* every listener has run
C4_SynchronousCommit ==
  \A i \in DOMAIN calls :
    Changing(i) =>
      /\ calls[i].stateAtReturn.ref = calls[i].nextState.ref
      /\ calls[i].committed
      /\ calls[i].notifiedAtReturn = Len(calls[i].listenersAtCommit)
      /\ calls[i].promiseAtReturn = "resolved"

\* a function dispatched with a listener subscribed
C4_Witness ==
  \E i \in DOMAIN calls :
    /\ Changing(i)
    /\ ~calls[i].byName
    /\ calls[i].parent = 0
    /\ calls[i].notifiedAtReturn = 1
    /\ state = calls[i].nextState

\* C5: a listener is called with the name of the dispatched action and with
\* the previous state; getState() inside it returns the committed state,
\* which is another reference
C5_ListenerSeesPreviousState ==
  \A k \in DOMAIN log :
    /\ log[k].call \in DOMAIN calls
    /\ log[k].prevState.ref /= log[k].getState.ref
    /\ log[k].prevState = calls[log[k].call].stateAtCall
    /\ log[k].getState = calls[log[k].call].nextState
    /\ calls[log[k].call].byName => log[k].type = calls[log[k].call].action

\* the listener of the test: dispatch('increaseA') from a = 1
C5_Witness ==
  \E k \in DOMAIN log :
    /\ log[k].type = "increaseA"
    /\ log[k].prevState.a = 1
    /\ log[k].getState.a = 2
    /\ state.a = 2

\* the dispatches nested in a call: those its handler made
Nested(i) == {j \in DOMAIN calls : calls[j].parent = i}

\* the action function a plain dispatch runs
FnOf(i) == IF calls[i].byName THEN Lookup(actions, calls[i].action).action ELSE calls[i].action

\* C6: dispatching a name that is absent from the action map does not fail:
\* the promise resolves, getState() stays the same reference, no listener and
\* no handler is invoked
C6_UnknownNameIsNoOp ==
  \A i \in DOMAIN calls :
    (calls[i].returned /\ calls[i].byName /\ calls[i].action \notin DOMAIN actions) =>
      /\ calls[i].promiseAtReturn = "resolved"
      /\ calls[i].promise = "resolved"
      /\ calls[i].error = ""
      /\ calls[i].stateAtReturn.ref = calls[i].stateAtCall.ref
      /\ ~calls[i].committed
      /\ LogOf(log, i) = <<>>
      /\ calls[i].hp = "none" /\ calls[i].handled = 0
      /\ Nested(i) = {}

\* dispatch('nonexistent') with a listener subscribed and 'rx' registered
C6_Witness ==
  \E i \in DOMAIN calls :
    /\ calls[i].returned /\ calls[i].byName /\ calls[i].action = "nonexistent"
    /\ calls[i].promise = "resolved"
    /\ listeners /= <<>>
    /\ actionHandlers["rx"] /= Undefined

\* a dispatch of a plugin action whose handler was not registered at the call
Unregistered(i) ==
  /\ calls[i].returned /\ calls[i].byName
  /\ calls[i].action \in DOMAIN actions
  /\ actions[calls[i].action].handler /= Undefined
  /\ calls[i].handler = Undefined

\* C7: dispatching a PluginAction whose handler is not registered at the time
\* of the call fails the promise with "The handler '<name>' is not
\* registered", leaves getState() the same reference and invokes no listener
C7_UnregisteredHandlerRejects ==
  \A i \in DOMAIN calls :
    Unregistered(i) =>
      /\ calls[i].promise = "rejected"
      /\ (actions[calls[i].action].handler = "nonexistent" =>
            calls[i].error = "The handler 'nonexistent' is not registered")
      /\ (actions[calls[i].action].handler = "rx" =>
            calls[i].error = "The handler 'rx' is not registered")
      /\ calls[i].stateAtReturn.ref = calls[i].stateAtCall.ref
      /\ calls[i].stateAtSettle.ref = calls[i].stateAtCall.ref
      /\ LogOf(log, i) = <<>>
      /\ calls[i].handled = 0
      /\ Nested(i) = {}

\* dispatch('pluginNonexistent') with a listener subscribed
C7_Witness ==
  \E i \in DOMAIN calls :
    /\ Unregistered(i)
    /\ calls[i].action = "pluginNonexistent"
    /\ calls[i].promise = "rejected"
    /\ listeners /= <<>>

\* a plain dispatch whose action function throws on the draft
Throwing(i) ==
  Plain(i) /\ ApplyAction(FnOf(i), calls[i].stateAtCall, calls[i].params).threw

\* C8: when a plain action function, dispatched by name or by function, fails
\* on the draft, the promise fails with that error, the stored state stays
\* the same reference and no listener is invoked
C8_FailingActionRejects ==
  \A i \in DOMAIN calls :
    Throwing(i) =>
      /\ calls[i].promise = "rejected"
      /\ calls[i].error = ApplyAction(FnOf(i), calls[i].stateAtCall, calls[i].params).err
      /\ calls[i].stateAtReturn = calls[i].stateAtCall
      /\ ~calls[i].committed
      /\ LogOf(log, i) = <<>>

\* the failing action dispatched by name, after a dispatch by function of it,
\* with a listener subscribed
C8_Witness ==
  \E i \in DOMAIN calls :
    /\ Throwing(i)
    /\ calls[i].byName
    /\ calls[i].error = "action failed"
    /\ listeners /= <<>>
    /\ state = initialState
    /\ made = 2

\* C9 as stated: whenever the promise of a dispatch fails, whatever the cause,
\* the failed dispatch has left no commit: neither it nor a dispatch nested in
\* it has replaced the state that was stored when it was called
C9_FailedDispatchLeavesNoCommit ==
  \A i \in DOMAIN calls :
    calls[i].promise = "rejected" =>
      /\ ~calls[i].committed
      /\ \A j \in Nested(i) : ~calls[j].committed

\* C9 as amended: a dispatch that fails because its handler is not registered
\* or because its action function throws leaves the stored state the same
\* reference as when it was called; a plugin dispatch makes no commit of its
\* own, and when its handler fails the state is the one the dispatches the
\* handler made before failing have committed
C9_FailureKeepsNestedCommits ==
  \A i \in DOMAIN calls :
    /\ (Unregistered(i) \/ Throwing(i)) =>
         /\ calls[i].promise = "rejected"
         /\ calls[i].stateAtSettle.ref = calls[i].stateAtCall.ref
         /\ ~calls[i].committed
         /\ Nested(i) = {}
    /\ (calls[i].path = "plugin" /\ calls[i].promise = "rejected") =>
         /\ ~calls[i].committed
         /\ calls[i].error =
              (IF Unregistered(i) THEN NotRegistered(actions[calls[i].action].handler)
               ELSE calls[i].herr)
         /\ (\E j \in Nested(i) : calls[j].committed) =>
              calls[i].stateAtSettle.ref /= calls[i].stateAtCall.ref

\* the handler of rxIncreaseThenFail has dispatched increaseA and failed: the
\* promise is rejected and the state is the one the nested dispatch committed
C9_Witness ==
  \E i \in DOMAIN calls :
    /\ calls[i].action = "rxIncreaseThenFail"
    /\ calls[i].promise = "rejected"
    /\ \E j \in Nested(i) : calls[j].committed /\ state = calls[j].nextState
    /\ state.ref /= calls[i].stateAtCall.ref

\* C10 as stated: no listener is invoked for a failed dispatch: none on behalf
\* of the dispatch whose promise fails, none on behalf of a dispatch nested in
\* it
C10_FailedDispatchNotifiesNobody ==
  \A i \in DOMAIN calls :
    calls[i].promise = "rejected" =>
      \A k \in DOMAIN log : log[k].call /= i /\ log[k].call \notin Nested(i)

\* C10 as amended: a dispatch that fails because its handler is not registered
\* or because its action function throws invokes no listener, and a plugin
\* dispatch invokes none on its own behalf; the dispatches a handler made
\* before failing have notified the listeners, each as a dispatch of its own
C10_FailureNotifiesOnlyForNested ==
  \A i \in DOMAIN calls :
    /\ (Unregistered(i) \/ Throwing(i)) =>
         /\ calls[i].promise = "rejected"
         /\ \A k \in DOMAIN log : log[k].call /= i /\ log[k].call \notin Nested(i)
    /\ calls[i].path = "plugin" => LogOf(log, i) = <<>>
    /\ \A j \in Nested(i) :
         Changing(j) => Invoked(j) = calls[j].listenersAtCommit

\* the handler of rxIncreaseThenFail has failed after its nested dispatch of
\* increaseA notified the subscribed listener
C10_Witness ==
  \E i \in DOMAIN calls :
    /\ calls[i].action = "rxIncreaseThenFail"
    /\ calls[i].promise = "rejected"
    /\ \E k \in DOMAIN log : log[k].call \in Nested(i) /\ log[k].type = "increaseA"
    /\ LogOf(log, i) = <<>>

\* a dispatch of a plugin action whose handler was registered at the call
Handled(i) == calls[i].returned /\ calls[i].path = "plugin" /\ calls[i].handler /= Undefined

\* C11: the promise of a plugin dispatch resolves only after the promise of
\* the registered handler has resolved: the handler has nothing left to do,
\* every dispatch it made has returned with its commit done, and for
\* rxIncreaseA both the immediate +n and the delayed +1 are in the state
C11_ResolvesAfterHandler ==
  \A i \in DOMAIN calls :
    (Handled(i) /\ calls[i].promise = "resolved") =>
      /\ calls[i].hp = "resolved"
      /\ calls[i].handled = 1
      /\ calls[i].promiseAtReturn = "pending"
      /\ \A t \in timers : t.call /= i
      /\ \A j \in Nested(i) :
           calls[j].returned /\ (Changing(j) => calls[j].committed)
      /\ calls[i].action = "rxIncreaseA" =>
           /\ calls[i].stateAtSettle.a >= calls[i].stateAtCall.a + Increment(calls[i].params) + 1
           /\ state.a >= calls[i].stateAtSettle.a
           /\ (made = 1 =>
                 calls[i].stateAtSettle.a = calls[i].stateAtCall.a + Increment(calls[i].params) + 1)

\* dispatch('rxIncreaseA', 10) from a = 1 has resolved with a = 12
C11_Witness ==
  \E i \in DOMAIN calls :
    /\ Handled(i) /\ calls[i].action = "rxIncreaseA" /\ calls[i].params = Num(10)
    /\ calls[i].promise = "resolved"
    /\ calls[i].stateAtCall.a = 1
    /\ calls[i].stateAtReturn.a = 11
    /\ calls[i].stateAtSettle.a = 12
    /\ state.a = 12

\* C12 as stated: the promise of a plugin dispatch fails if any step of its
\* chain failed: with the handler's error when the handler's promise failed,
\* and also when a dispatch the handler made has failed
C12_AnyFailedStepFailsChain ==
  \A i \in DOMAIN calls :
    Handled(i) =>
      /\ calls[i].promise = "rejected" => calls[i].error = calls[i].herr
      /\ calls[i].hp = "rejected" => calls[i].promise /= "resolved"
      /\ (\E j \in Nested(i) : calls[j].promise = "rejected") =>
           calls[i].promise /= "resolved"

\* C12 as amended: the promise of a plugin dispatch follows the promise of
\* the handler and nothing else: it fails exactly when the handler's promise
\* failed, with the handler's error, and resolves when the handler's promise
\* resolved, also when a dispatch the handler made has failed
C12_FailsWithHandlerError ==
  \A i \in DOMAIN calls :
    Handled(i) =>
      /\ calls[i].promise = "rejected" =>
           calls[i].hp = "rejected" /\ calls[i].error = calls[i].herr
      /\ calls[i].promise = "resolved" =>
           calls[i].hp = "resolved" /\ calls[i].error = ""
      /\ calls[i].action = "rxActionWithError" =>
           /\ calls[i].hp = "rejected" /\ calls[i].herr = "Something went wrong."
           /\ calls[i].promise \in {"pending", "rejected"}
      /\ calls[i].action = "rxNestedFailure" =>
           /\ calls[i].hp = "resolved"
           /\ calls[i].promise \in {"pending", "resolved"}

\* dispatch('rxActionWithError') has failed with the error of the observable
C12_Witness ==
  \E i \in DOMAIN calls :
    /\ Handled(i) /\ calls[i].action = "rxActionWithError"
    /\ calls[i].promise = "rejected"
    /\ calls[i].error = "Something went wrong."
    /\ calls[i].stateAtSettle = calls[i].stateAtCall

\* the dispatches of rxIncreaseA the application made with 'rx' registered
RxIncrease(i) == Handled(i) /\ calls[i].action = "rxIncreaseA" /\ calls[i].parent = 0

\* every dispatch the application has made is still under observation
AllObserved == Cardinality({i \in DOMAIN calls : calls[i].parent = 0}) = made

\* C13: with 'rx' registered, dispatch('rxIncreaseA', n) has increased a by n
\* when the call returns and by exactly 1 more after the delay, through two
\* nested dispatches of increaseA and with no other change of the state; two
\* such dispatches, no other dispatch made, accumulate to n1 + 1 + n2 + 1
C13_RxIncreaseA ==
  /\ \A i \in DOMAIN calls :
       RxIncrease(i) =>
         /\ calls[i].stateAtReturn.a = calls[i].stateAtCall.a + Increment(calls[i].params)
         /\ calls[i].stateAtReturn.b = calls[i].stateAtCall.b
         /\ calls[i].stateAtReturn.c = calls[i].stateAtCall.c
         /\ calls[i].promiseAtReturn = "pending"
         /\ ~calls[i].committed /\ LogOf(log, i) = <<>>
         /\ \A j \in Nested(i) :
              /\ Plain(j) /\ calls[j].action = "increaseA" /\ calls[j].committed
              /\ calls[j].params \in {Num(Increment(calls[i].params)), NoParams}
              /\ calls[j].stateAtReturn.a = calls[j].stateAtCall.a + Increment(calls[j].params)
              /\ calls[j].stateAtReturn.b = calls[j].stateAtCall.b
              /\ calls[j].stateAtReturn.c = calls[j].stateAtCall.c
         /\ (\A t \in timers : t.call /= i) =>
              state.a >= calls[i].stateAtCall.a + Increment(calls[i].params) + 1
         /\ (made = 1 /\ \E t \in timers : t.call = i) =>
              state.a = calls[i].stateAtCall.a + Increment(calls[i].params)
         /\ (made = 1 /\ \A t \in timers : t.call /= i) =>
              /\ state.a = calls[i].stateAtCall.a + Increment(calls[i].params) + 1
              /\ state.b = calls[i].stateAtCall.b /\ state.c = calls[i].stateAtCall.c
  /\ \A i, k \in DOMAIN calls :
       (/\ i /= k /\ RxIncrease(i) /\ RxIncrease(k) /\ made = 2 /\ AllObserved
        /\ timers = {}
        /\ calls[i].stateAtCall.a <= calls[k].stateAtCall.a) =>
         state.a = calls[i].stateAtCall.a + Increment(calls[i].params) + 1
                     + Increment(calls[k].params) + 1

\* dispatch('rxIncreaseA', 10) and dispatch('rxIncreaseA') from a = 1, both
\* delays over: a = 1 + 10 + 1 + 1 + 1
C13_Witness ==
  \E i, k \in DOMAIN calls :
    /\ RxIncrease(i) /\ RxIncrease(k) /\ made = 2 /\ AllObserved /\ timers = {}
    /\ calls[i].params = Num(10) /\ calls[k].params = NoParams
    /\ calls[i].stateAtCall.a = 1
    /\ calls[i].stateAtReturn.a = 11
    /\ state.a = 14

\* a dispatch, by name or by function, of an async action
Async(i) == Plain(i) /\ FnOf(i) \in AsyncFns

\* the async action of a dispatch has not finished yet
Suspended(i) == \E t \in timers : t.call = i /\ t.events[1].ev = "resume"

\* C14: dispatch of an async action waits for the action before it commits:
\* getState() right after the call is the old state, the stored state is
\* never the pending result itself, and the promise of dispatch resolves only
\* after the action has finished and its new state is committed
C14_AsyncCommitWaits ==
  /\ ~state.isPromise
  /\ \A i \in DOMAIN calls :
       Async(i) =>
         /\ calls[i].stateAtReturn = calls[i].stateAtCall
         /\ calls[i].promiseAtReturn = "pending"
         /\ calls[i].promise = "resolved" => ~Suspended(i)

\* a timer that leaves the set in this step: its callback has run
Fired(t) == t \in timers /\ t \notin timers'

\* C15: async dispatches are not serialized (the earlier Store): every
\* dispatch derives its next state from the state stored when produce was
\* called, whatever has been committed since; a dispatch begun earlier may
\* commit after a later one; each commit replaces the stored state, so the
\* one that commits last wins, and the listeners are notified once per commit
C15_AsyncLastCommitWins ==
  /\ [](\A i \in DOMAIN calls :
          Async(i) =>
            /\ calls[i].stateAtReturn = calls[i].stateAtCall
            /\ calls[i].notifiedAtReturn = 0
            /\ Suspended(i) => ~calls[i].committed /\ LogOf(log, i) = <<>>
            /\ ~Suspended(i) =>
                 /\ calls[i].committed
                 /\ calls[i].nextState.a = calls[i].stateAtCall.a + Increment(calls[i].params)
                 /\ calls[i].nextState.b = calls[i].stateAtCall.b
                 /\ calls[i].nextState.c = calls[i].stateAtCall.c
                 /\ Invoked(i) = calls[i].listenersAtCommit
                 /\ \A k \in 1..Len(LogOf(log, i)) :
                      /\ LogOf(log, i)[k].type = TypeOf(i)
                      /\ LogOf(log, i)[k].getState = calls[i].nextState)
  /\ [][\A t \in timers :
          (Fired(t) /\ t.events[1].ev = "resume") =>
            /\ state'.ref /= state.ref
            /\ state' = calls'[t.call].nextState
            /\ state'.a = calls[t.call].stateAtCall.a + Increment(calls[t.call].params)
            /\ Len(log') = Len(log) + Len(listeners)
            /\ \A k \in (Len(log) + 1)..Len(log') :
                 log'[k].call = t.call /\ log'[k].prevState = state]_vars

\* two async dispatches from a = 1, the first with 10, the second with none:
\* the second committed first (a = 2), the first committed last and its state
\* (a = 11) is the stored one; the listener was notified once for each
C15_Witness ==
  /\ DOMAIN calls = {1, 2} /\ timers = {}
  /\ Async(1) /\ Async(2) /\ calls[1].committed /\ calls[2].committed
  /\ calls[1].params = Num(10) /\ calls[2].params = NoParams
  /\ calls[1].stateAtCall = initialState /\ calls[2].stateAtCall = initialState
  /\ Len(log) = 2 /\ log[1].call = 2 /\ log[2].call = 1
  /\ log[2].prevState.a = 2
  /\ state = calls[1].nextState /\ state.a = 11

\* the dispatches a listener made while it was notified of the commit of i
Inner(i) == {j \in DOMAIN calls : calls[j].parent = i /\ Plain(i)}

\* C16: a dispatch from inside a listener works on the state the outer
\* dispatch has just committed (on the state the inner dispatch before it
\* committed, when the outer loop has made one already) and notifies the listeners with its own name
\* and previous state after its own commit, and every listener of the outer
\* loop is still invoked exactly once, in order, with the outer name and the
\* outer previous state
C16_ReentrantDispatch ==
  \A i \in DOMAIN calls :
    Changing(i) =>
      /\ calls[i].committed
      /\ Invoked(i) = calls[i].listenersAtCommit
      /\ \A k \in 1..Len(LogOf(log, i)) :
           /\ LogOf(log, i)[k].type = TypeOf(i)
           /\ LogOf(log, i)[k].prevState = calls[i].stateAtCall
      /\ \A j \in Inner(i) :
           /\ Changing(j)
           /\ calls[j].stateAtCall \in
                {calls[i].nextState} \cup {calls[m].nextState : m \in Inner(i) \ {j}}
           /\ Cardinality(Inner(i)) = 1 => calls[j].stateAtCall = calls[i].nextState
           /\ calls[j].stateAtReturn = calls[j].nextState
           /\ Invoked(j) = calls[j].listenersAtCommit
           /\ calls[j].listenersAtCommit = calls[i].listenersAtCommit
           /\ \A k \in 1..Len(LogOf(log, j)) :
                /\ LogOf(log, j)[k].type = TypeOf(j)
                /\ LogOf(log, j)[k].prevState = calls[j].stateAtCall
                /\ LogOf(log, j)[k].getState = calls[j].nextState

\* listeners R, L1 and dispatch('increaseA') from a = 1: R is told of
\* increaseA and dispatches toggleC, R and L1 are told of toggleC with the
\* state a = 2, then L1 is told of increaseA with the state a = 1
C16_Witness ==
  /\ listeners = <<"R", "L1">>
  /\ Len(log) = 4
  /\ log[1].listener = "R" /\ log[1].type = "increaseA" /\ log[1].prevState.a = 1
  /\ log[2].listener = "R" /\ log[2].type = "toggleC" /\ log[2].prevState.a = 2
  /\ log[3].listener = "L1" /\ log[3].type = "toggleC" /\ log[3].prevState.c
  /\ log[4].listener = "L1" /\ log[4].type = "increaseA"
  /\ log[4].prevState = initialState
  /\ log[4].call = log[1].call /\ log[2].call = log[3].call
  /\ state.a = 2 /\ ~state.c

\* how often l occurs in the sequence q
Count(q, l) == Cardinality({k \in DOMAIN q : q[k] = l})

\* C17: subscribing or unsubscribing from inside a listener does not corrupt
\* the loop of the notification: every listener that was in the sequence when
\* the notification began (none is removed before its turn here: listener U
\* removes itself in its turn, listener S appends) is invoked for that commit,
\* and none more often than it was subscribed
C17_ResubscribeKeepsLoop ==
  \A i \in DOMAIN calls :
    Changing(i) =>
      \A k \in DOMAIN calls[i].listenersAtCommit :
        LET l == calls[i].listenersAtCommit[k]
        IN /\ Count(Invoked(i), l) >= 1
           /\ Count(Invoked(i), l) <= Count(calls[i].listenersAtCommit, l)

\* a step of subscribe: the sequence of listeners has grown
Subscribed == Len(listeners') > Len(listeners)

\* a step that removed an entry of l from the sequence of listeners
Removed(l) == Count(listeners', l) < Count(listeners, l)

\* every state-changing dispatch invokes the listeners of the sequence, once
\* for each entry and in order
NotifiedPerEntry == \A i \in DOMAIN calls : Changing(i) => Invoked(i) = calls[i].listenersAtCommit

\* C18 as stated: subscribe appends the listener and returns a function, and
\* once that function or unSubscribe(listener) has been called the listener is
\* invoked by no later state-changing dispatch: it has left the sequence
\* whose entries the dispatches invoke
C18_UnsubscribedNeverInvoked ==
  /\ []NotifiedPerEntry
  /\ [][/\ Subscribed => listeners' = Append(listeners, listeners'[Len(listeners')])
        /\ \A l \in ListenerIds : Removed(l) => Count(listeners', l) = 0]_vars

\* C18 as amended: subscribe appends the listener at the end and returns a
\* function; a state-changing dispatch invokes a listener once for each entry
\* it has in the sequence; the function returned and unSubscribe(listener)
\* remove one entry, the first, and leave the others in their order, so that
\* a listener subscribed once is invoked by no later dispatch and a listener
\* subscribed twice is still invoked once
C18_UnsubscribeRemovesOneEntry ==
  /\ []NotifiedPerEntry
  /\ [][/\ Subscribed => listeners' = Append(listeners, listeners'[Len(listeners')])
        /\ unsubscribers' /= unsubscribers =>
             \E l \in ListenerIds : /\ unsubscribers' = unsubscribers \cup {l}
                                    /\ listeners' = Append(listeners, l)
        /\ \A l \in ListenerIds :
             Removed(l) =>
               /\ Count(listeners', l) = Count(listeners, l) - 1
               /\ \A m \in ListenerIds \ {l} : Count(listeners', m) = Count(listeners, m)
               /\ SelectSeq(listeners', LAMBDA x : x /= l)
                    = SelectSeq(listeners, LAMBDA x : x /= l)
               /\ \E k \in DOMAIN listeners :
                    /\ listeners[k] = l
                    /\ \A j \in 1..(k - 1) : listeners[j] /= l /\ listeners'[j] = listeners[j]
                    /\ \A j \in k..Len(listeners') : listeners'[j] = listeners[j + 1]
               /\ Count(listeners, l) = 1 => \A k \in DOMAIN listeners' : listeners'[k] /= l]_vars

\* L1 subscribed with its function kept, one dispatch of increaseA that
\* notified it, the function called, and a second dispatch of increaseA that
\* changed the state and notified nobody
C18_Witness ==
  /\ "L1" \in unsubscribers
  /\ listeners = <<>>
  /\ made = 2
  /\ state.a = 3
  /\ \E i \in DOMAIN calls :
       /\ Changing(i) /\ calls[i].action = "increaseA"
       /\ calls[i].listenersAtCommit = <<>> /\ LogOf(log, i) = <<>>

\* the sequence q without the first of its entries identical to l
WithoutFirst(q, l) ==
  IF Count(q, l) = 0 THEN q
  ELSE LET k == CHOOSE k \in DOMAIN q : q[k] = l /\ \A j \in 1..(k - 1) : q[j] /= l
       IN SubSeq(q, 1, k - 1) \o SubSeq(q, k + 1, Len(q))

\* C19: unSubscribe(listener) with a listener that is not in the sequence
\* changes nothing: the sequence and its order stay and the subscribed
\* listeners keep being notified; with a listener that is in the sequence it
\* removes the first entry identical to it and keeps the others in order
C19_UnSubscribeFirstEntryOrNothing ==
  /\ [](\A i \in DOMAIN calls : Changing(i) => Invoked(i) = calls[i].listenersAtCommit)
  /\ [][\A l \in ListenerIds :
          UnSubscribe(l) =>
            /\ state' = state /\ actions' = actions /\ actionHandlers' = actionHandlers
            /\ Count(listeners, l) = 0 => listeners' = listeners
            /\ Count(listeners, l) > 0 =>
                 /\ listeners' = WithoutFirst(listeners, l)
                 /\ Len(listeners') = Len(listeners) - 1
                 /\ Count(listeners', l) = Count(listeners, l) - 1]_vars

\* L1 was subscribed and is in the sequence no more, L2 is, and the dispatch
\* of increaseA made since notified L2 alone
C19_Witness ==
  /\ "L1" \in unsubscribers
  /\ listeners = <<"L2">>
  /\ \E i \in DOMAIN calls :
       /\ Changing(i) /\ calls[i].action = "increaseA"
       /\ calls[i].listenersAtCommit = <<"L2">> /\ Invoked(i) = <<"L2">>

\* C20 as stated: the function subscribe returned and unSubscribe(listener)
\* are idempotent from any state of the store: a second call leaves the
\* sequence of listeners as the first call left it
C20_UnsubscribeIdempotent ==
  \A l \in ListenerIds :
    LET once == unSubscribe(World, l)
    IN unSubscribe(once, l).listeners = once.listeners

\* C20 as amended: the function subscribe returned and unSubscribe(listener)
\* do the same: each call removes the first entry of the listener if it has
\* one; a second call changes nothing more when the listener had one entry
\* at most, and removes its next entry when it had been subscribed again
C20_UnsubscribeOneEntryPerCall ==
  /\ [](\A l \in ListenerIds :
          LET once == unSubscribe(World, l)
              twice == unSubscribe(once, l)
          IN /\ once.listeners = WithoutFirst(listeners, l)
             /\ twice.listeners = WithoutFirst(WithoutFirst(listeners, l), l)
             /\ once.state = state /\ twice.state = state
             /\ Count(listeners, l) <= 1 =>
                  twice.listeners = once.listeners /\ Count(once.listeners, l) = 0
             /\ Count(listeners, l) >= 2 =>
                  Count(twice.listeners, l) = Count(once.listeners, l) - 1)
  /\ [][\A l \in ListenerIds :
          (Unsubscribe(l) \/ UnSubscribe(l)) =>
            /\ listeners' = WithoutFirst(listeners, l)
            /\ state' = state /\ unsubscribers' = unsubscribers]_vars

\* L1 and L2 were subscribed, each once or more, and every entry has been
\* removed again, by the functions subscribe returned or by unSubscribe
C20_Witness ==
  /\ unsubscribers = {"L1", "L2"}
  /\ listeners = <<>>
  /\ made = 0

\* C21 as stated: the sequence of listeners never holds a listener more than
\* once, whatever subscribe and unSubscribe calls were made
C21_NoDuplicateListener == \A l \in ListenerIds : Count(listeners, l) <= 1

\* C21 as amended: subscribe appends the listener whether or not it is in
\* the sequence, so a listener occurs more than once exactly when it was
\* subscribed while it was in the sequence; no other call adds an entry, a
\* listener never subscribed has none, and unSubscribe takes one entry away
C21_DuplicateOnlyBySubscribingAgain ==
  /\ [](\A l \in ListenerIds : l \notin unsubscribers => Count(listeners, l) = 0)
  /\ [][\A l \in ListenerIds :
          /\ SubscribeKeep(l) =>
               /\ listeners' = Append(listeners, l)
               /\ Count(listeners', l) = Count(listeners, l) + 1
          /\ Count(listeners', l) > Count(listeners, l) =>
               listeners' = Append(listeners, l)
          /\ (Count(listeners', l) > 1 /\ Count(listeners, l) <= 1) =>
               (Count(listeners, l) = 1 /\ listeners' = Append(listeners, l))
          /\ (UnSubscribe(l) \/ Unsubscribe(l)) =>
               Count(listeners', l) = (IF Count(listeners, l) = 0 THEN 0
                                       ELSE Count(listeners, l) - 1)]_vars

\* L1 was subscribed, L2 after it and L1 once more: L1 has two entries, and
\* the dispatch made since invoked it twice
C21_Witness ==
  /\ listeners = <<"L1", "L2", "L1">>
  /\ \E i \in DOMAIN calls :
       Changing(i) /\ Invoked(i) = <<"L1", "L2", "L1">>

\* a dispatch of a plugin action, whatever was registered for it
Plugin(i) == calls[i].returned /\ calls[i].path = "plugin"

\* the handler name of the plugin action a call dispatched
HandlerNameOf(i) == actions[calls[i].action].handler

\* C22: the handler of a plugin action is looked up when the action is
\* dispatched: a dispatch made while nothing is registered under the handler
\* name fails, calls no handler and stays failed when a handler is registered
\* afterwards; a dispatch made after registerActionHandler(h, f) calls f
C22_HandlerLookedUpAtDispatch ==
  \A i \in DOMAIN calls :
    Plugin(i) =>
      /\ calls[i].handler = calls[i].registered
      /\ calls[i].registered = Undefined =>
           /\ calls[i].promise = "rejected"
           /\ calls[i].promiseAtReturn = "rejected"
           /\ calls[i].error = NotRegistered(HandlerNameOf(i))
           /\ calls[i].ran = <<>> /\ calls[i].handled = 0
      /\ calls[i].registered /= Undefined =>
           /\ Len(calls[i].ran) = 1 /\ calls[i].handled = 1
           /\ calls[i].ran[1].fn = calls[i].registered
           /\ calls[i].error /= NotRegistered(HandlerNameOf(i))

\* dispatch('rxIncreaseA') failed while 'rx' had no handler; the handler has
\* been registered since and the dispatch is still failed
C22_Witness ==
  \E i \in DOMAIN calls :
    /\ Plugin(i) /\ calls[i].action = "rxIncreaseA"
    /\ calls[i].registered = Undefined
    /\ calls[i].promise = "rejected"
    /\ calls[i].error = "The handler 'rx' is not registered"
    /\ actionHandlers["rx"] = "rxHandler"
    /\ state = initialState

\* a plugin action that names the handler
ActionNaming(h) == CHOOSE n \in HandlerDispatchNames : Lookup(actions, n).handler = h

\* C23: registerActionHandler(name, f) stores f under the name and replaces
\* what was registered there: after f1 and then f2 have been registered, a
\* dispatch of an action naming the handler calls f2 and not f1, and what is
\* registered under the other names is as it was
C23_RegistrationOverwrites ==
  /\ \A name \in HandlerNames : \A f1, f2 \in AllHandlerFns :
       LET W1 == registerActionHandler(World, name, f1)
           W2 == Forget(registerActionHandler(W1, name, f2))
           D == dispatch(W2, TRUE, ActionNaming(name), NoParams, 0)
       IN /\ W1.actionHandlers[name] = f1
          /\ W2.actionHandlers[name] = f2
          /\ \A n \in HandlerNames \ {name} : W2.actionHandlers[n] = actionHandlers[n]
          /\ W2.state = state /\ W2.listeners = listeners
          /\ D.calls[NewId(W2)].ran = <<Ran(f2, actions[ActionNaming(name)], NoParams)>>
  /\ \A i \in DOMAIN calls :
       Plugin(i) => \A k \in DOMAIN calls[i].ran : calls[i].ran[k].fn = calls[i].registered

\* 'rx' had the handler that returns a promise when rxIncreaseA was
\* dispatched first, whose timer is pending; the handler that returns nothing
\* was registered over it and the second dispatch called that one
C23_Witness ==
  \E i, j \in DOMAIN calls :
    /\ Plugin(i) /\ Plugin(j)
    /\ calls[i].action = "rxIncreaseA" /\ calls[j].action = "rxIncreaseA"
    /\ calls[i].ran = <<Ran("rxHandler", actions["rxIncreaseA"], NoParams)>>
    /\ calls[j].ran = <<Ran("voidRxHandler", actions["rxIncreaseA"], Num(10))>>
    /\ calls[j].stateAtCall = calls[i].stateAtReturn
    /\ actionHandlers["rx"] = "voidRxHandler"
    /\ actionHandlers["nonexistent"] = Undefined

\* C24: a plugin action whose registered handler finishes synchronously and
\* returns no promise is dispatched with success: the promise of the
\* dispatch resolves and does not fail
C24_SynchronousHandlerSucceeds ==
  \A i \in DOMAIN calls :
    (Plugin(i) /\ calls[i].registered = "voidRxHandler") =>
      /\ calls[i].promise /= "rejected"
      /\ (\A t \in timers : t.call /= i) => calls[i].promise = "resolved"

\* the types a call reported to the listeners
TypesOf(L, id) == [k \in 1..Len(LogOf(L, id)) |-> LogOf(L, id)[k].type]

\* C25: the listeners are told the dispatched name when the dispatch was made
\* by name and 'NO_TYPE' when a function was dispatched; but for that name,
\* dispatching a function and dispatching the name it is registered under
\* do the same: same state, same promise, same listeners, same prevState
C25_TypeIsNameOrNoType ==
  /\ \A i \in DOMAIN calls :
       Plain(i) =>
         \A k \in DOMAIN LogOf(log, i) :
           /\ calls[i].byName => LogOf(log, i)[k].type = calls[i].action
           /\ ~calls[i].byName => LogOf(log, i)[k].type = "NO_TYPE"
  /\ \A fn \in ActionFns : \A params \in ParamsFor(fn) :
       LET W == Forget(World)
           id == NewId(W)
           N == dispatch(W, TRUE, fn, params, 0)
           F == dispatch(W, FALSE, fn, params, 0)
       IN /\ N.state = F.state
          /\ N.listeners = F.listeners
          /\ N.calls[id].promise = F.calls[id].promise
          /\ N.calls[id].error = F.calls[id].error
          /\ Len(N.log) = Len(F.log)
          /\ \A k \in DOMAIN N.log :
               /\ N.log[k].listener = F.log[k].listener
               /\ N.log[k].prevState = F.log[k].prevState
               /\ N.log[k].getState = F.log[k].getState
          /\ \A k \in DOMAIN TypesOf(N.log, id) : TypesOf(N.log, id)[k] = fn
          /\ \A k \in DOMAIN TypesOf(F.log, id) : TypesOf(F.log, id)[k] = "NO_TYPE"

\* the function increaseA dispatched with 10 after a first dispatch: both
\* listeners were told 'NO_TYPE' and a went from 2 to 12
C25_Witness ==
  \E i \in DOMAIN calls :
    /\ Plain(i) /\ ~calls[i].byName /\ calls[i].action = "increaseA"
    /\ calls[i].params = Num(10)
    /\ TypesOf(log, i) = <<"NO_TYPE", "NO_TYPE">>
    /\ Invoked(i) = <<"L1", "L2">>
    /\ calls[i].stateAtCall.a = 2 /\ state.a = 12

\* a plain dispatch whose action function wrote a field of the draft
Mutating(i) ==
  /\ Plain(i)
  /\ LET r == ApplyAction(FnOf(i), calls[i].stateAtCall, calls[i].params)
     IN ~r.threw /\ (r.a /= calls[i].stateAtCall.a \/ r.c /= calls[i].stateAtCall.c)

\* the state objects something refers to
KnownObjects ==
  {state}
    \cup {log[k].prevState : k \in DOMAIN log}
    \cup {log[k].getState : k \in DOMAIN log}
    \cup UNION {{calls[i].stateAtCall, calls[i].stateAtReturn, calls[i].stateAtSettle,
                 calls[i].nextState} : i \in DOMAIN calls}
    \cup UNION {{calls[i].produced[k] : k \in DOMAIN calls[i].produced} : i \in DOMAIN calls}

\* C26: a commit does not alter a state that was stored before: after a
\* dispatch whose action wrote a field, the previous state object holds the
\* values it held, the new state is another object, and the fields the action
\* did not write have the same values in both
C26_CommitKeepsPreviousState ==
  /\ \A x, y \in KnownObjects : x.ref = y.ref => x = y
  /\ \A i \in DOMAIN calls :
       Mutating(i) =>
         /\ calls[i].nextState.ref /= calls[i].stateAtCall.ref
         /\ calls[i].stateAtReturn = calls[i].nextState
         /\ calls[i].produced = <<calls[i].stateAtCall>>
         /\ \A k \in DOMAIN LogOf(log, i) :
              /\ LogOf(log, i)[k].prevState = calls[i].stateAtCall
              /\ LogOf(log, i)[k].prevState.ref /= LogOf(log, i)[k].getState.ref
         /\ calls[i].nextState.b = calls[i].stateAtCall.b
         /\ FnOf(i) = "increaseA" =>
              /\ calls[i].nextState.c = calls[i].stateAtCall.c
              /\ calls[i].nextState.a = calls[i].stateAtCall.a + Increment(calls[i].params)
         /\ FnOf(i) = "toggleC" =>
              /\ calls[i].nextState.a = calls[i].stateAtCall.a
              /\ calls[i].nextState.c = ~calls[i].stateAtCall.c

\* dispatch('toggleC') after a dispatch of increaseA: the listener holds the
\* previous state with a = 2 and c = true, the state has a = 2 and c = false
C26_Witness ==
  \E i \in DOMAIN calls :
    /\ Mutating(i) /\ calls[i].byName /\ calls[i].action = "toggleC"
    /\ log /= <<>>
    /\ log[1].prevState.a = 2 /\ log[1].prevState.c
    /\ state.a = 2 /\ ~state.c
    /\ log[1].prevState.ref /= state.ref

\* C27: getState() after construction returns the initial state object
\* itself, and goes on returning it until a dispatch changes the state: the
\* stored reference is replaced by a committing dispatch and by nothing else
C27_InitialStateUntilFirstCommit ==
  /\ [](made = 0 => state = initialState /\ state.ref = initialState.ref)
  /\ [][state' /= state =>
          /\ state'.ref /= state.ref
          /\ \E i \in DOMAIN calls' :
               /\ calls'[i].committed
               /\ calls'[i].path \in {"plain", "direct"}
               /\ calls'[i].nextState = state'
               /\ calls'[i].nextState.ref /= calls'[i].stateAtCall.ref]_vars

\* two listeners are subscribed, 'rx' is registered and two dispatches have
\* been made, the last of doNothing, none of which changed the state:
\* getState() is the initial state object
C27_Witness ==
  /\ made = 2
  /\ state = initialState
  /\ Len(listeners) = 2
  /\ actionHandlers["rx"] /= Undefined
  /\ timers = {}
  /\ \E i \in DOMAIN calls :
       /\ Plain(i) /\ calls[i].action = "doNothing"
       /\ calls[i].stateAtCall = initialState /\ calls[i].stateAtReturn = initialState

\* the number a sequence of decimal digits stands for
RECURSIVE ParseDecimal(_)
ParseDecimal(s) ==
  IF s = <<>> THEN 0
  ELSE 10 * ParseDecimal(SubSeq(s, 1, Len(s) - 1))
         + (CHOOSE d \in 0..9 : DigitChars[d + 1] = s[Len(s)])

\* what is between 'Store[' and ']' in the name
Between(n) == SubSeq(n, 7, Len(n) - 1)

\* C28: the name of a store is 'Store[<name>]', <name> being the name given
\* to the constructor or, when none is given, 'NO_NAME_STORE_' followed by
\* the digits of the time of creation; it never changes after construction
C28_StoreName ==
  /\ [](\A arg \in NameArgs, now \in Clock :
          LET n == StoreName(arg, now)
              in == Between(n)
          IN /\ Len(n) >= 7
             /\ SubSeq(n, 1, 6) = <<"S", "t", "o", "r", "e", "[">>
             /\ n[Len(n)] = "]"
             /\ arg.given => in = arg.v
             /\ ~arg.given =>
                  /\ Len(in) >= 15
                  /\ SubSeq(in, 1, 14) =
                       <<"N", "O", "_", "N", "A", "M", "E", "_", "S", "T", "O", "R", "E", "_">>
                  /\ \A k \in 15..Len(in) : \E d \in 1..10 : DigitChars[d] = in[k]
                  /\ ParseDecimal(SubSeq(in, 15, Len(in))) = now)
  /\ [](\E arg \in NameArgs, now \in Clock : storeName = StoreName(arg, now))
  /\ [][storeName' = storeName]_vars

\* a store constructed without a name at time 1563 is 'Store[NO_NAME_STORE_1563]'
\* after two dispatches and a subscription
C28_Witness ==
  /\ storeName = <<"S", "t", "o", "r", "e", "[", "N", "O", "_", "N", "A", "M", "E", "_",
                   "S", "T", "O", "R", "E", "_", "1", "5", "6", "3", "]">>
  /\ made = 2
  /\ state.a = 12
  /\ listeners /= <<>>

\* the observable of the plugin action of a call emits no next: its handler
\* dispatches nothing
NoNext(i) ==
  LET obs == Observable(calls[i].action, calls[i].params)
  IN \A k \in DOMAIN (obs.sync \o obs.later) : (obs.sync \o obs.later)[k].ev /= "next"

\* C29: on the plugin path the store calls neither produce nor the listeners:
\* a plugin dispatch whose handler dispatches nothing leaves the state the
\* same reference and invokes no listener, and whenever the state changes it
\* was committed by a plain dispatch, made by the application or nested in a
\* plugin dispatch by its handler, never by a plugin dispatch itself
C29_PluginPathCommitsNothing ==
  /\ [](\A i \in DOMAIN calls :
          Plugin(i) =>
            /\ ~calls[i].committed
            /\ calls[i].produced = <<>>
            /\ calls[i].nextState = calls[i].stateAtCall
            /\ LogOf(log, i) = <<>> /\ calls[i].notifiedAtReturn = 0
            /\ (Handled(i) /\ NoNext(i)) =>
                 /\ calls[i].stateAtReturn = calls[i].stateAtCall
                 /\ Nested(i) = {}
                 /\ made = 1 => state = calls[i].stateAtCall /\ log = <<>>)
  /\ [][state'.ref /= state.ref =>
          \E j \in DOMAIN calls' :
            /\ calls'[j].committed /\ calls'[j].nextState = state'
            /\ calls'[j].path \in {"plain", "direct"}
            /\ calls'[j].produced = <<calls'[j].stateAtCall>>
            /\ calls'[j].parent /= 0 =>
                 /\ calls'[calls'[j].parent].path = "plugin"
                 /\ ~calls'[calls'[j].parent].committed
                 /\ calls'[calls'[j].parent].handler /= Undefined]_vars

\* dispatch('rxIncreaseA', 10) with L1 subscribed has returned: the state
\* was changed and L1 told by the nested dispatch of increaseA, the plugin
\* dispatch itself has committed nothing and told nobody
C29_Witness ==
  \E i \in DOMAIN calls :
    /\ Handled(i) /\ calls[i].action = "rxIncreaseA" /\ calls[i].params = Num(10)
    /\ calls[i].stateAtReturn.ref /= calls[i].stateAtCall.ref
    /\ LogOf(log, i) = <<>> /\ calls[i].produced = <<>>
    /\ listeners = <<"L1">>
    /\ \E j \in Nested(i) :
         /\ calls[j].committed /\ calls[j].nextState = state
         /\ Invoked(j) = <<"L1">>

\* C30: a dispatch of a plugin action with a registered handler calls that
\* handler once, with the entry of the action map and the params of the
\* dispatch; a dispatch of a plain action, of a function or of an unknown
\* name calls no handler; a plain dispatch calls produce once, on the state
\* stored when it is called
C30_OneHandlerCallOneProduce ==
  \A i \in DOMAIN calls :
    calls[i].returned =>
      /\ Handled(i) =>
           /\ calls[i].handled = 1
           /\ calls[i].ran =
                <<Ran(calls[i].registered, actions[calls[i].action], calls[i].params)>>
           /\ calls[i].ran[1].pluginAction.handler = HandlerNameOf(i)
           /\ calls[i].produced = <<>>
      /\ calls[i].path \in {"plain", "direct", "unknown"} =>
           /\ calls[i].ran = <<>> /\ calls[i].handled = 0 /\ calls[i].hp = "none"
      /\ calls[i].path \in {"plain", "direct"} =>
           /\ calls[i].produced = <<calls[i].stateAtCall>>
           /\ ~ApplyAction(FnOf(i), calls[i].stateAtCall, calls[i].params).threw =>
                /\ calls[i].nextState.a =
                     ApplyAction(FnOf(i), calls[i].stateAtCall, calls[i].params).a
                /\ calls[i].nextState.c =
                     ApplyAction(FnOf(i), calls[i].stateAtCall, calls[i].params).c
      /\ calls[i].path = "unknown" => calls[i].produced = <<>>

\* dispatch('rxIncreaseA', 10): the 'rx' handler was called once with the
\* entry of rxIncreaseA and 10, and the dispatch of increaseA it made called
\* produce once on the state stored then
C30_Witness ==
  \E i \in DOMAIN calls :
    /\ Handled(i)
    /\ calls[i].ran = <<Ran("rxHandler", PluginEntry("rx", "rxIncreaseA"), Num(10))>>
    /\ \E j \in Nested(i) :
         /\ Plain(j) /\ calls[j].params = Num(10)
         /\ calls[j].produced = <<calls[i].stateAtCall>>
         /\ calls[j].nextState.a = calls[i].stateAtCall.a + 10

\* C31: in the earlier Store, dispatching a name absent from the action map
\* writes exactly one diagnostic "The action '<name>' is not exist." to the
\* console, runs neither produce nor triggerListeners, leaves the stored state
\* the same reference and invokes no listener; dispatching a PluginAction
\* whose handler is not registered writes nothing, calls nothing and leaves
\* the stored state the same reference
C31_StoreUnknownLogsUnregisteredSilent ==
  \A i \in DOMAIN calls :
    /\ (calls[i].returned /\ calls[i].byName /\ calls[i].action \notin DOMAIN actions) =>
         /\ Len(calls[i].logged) = 1
         /\ (calls[i].action = "nonexistent" =>
               calls[i].logged[1] = "The action 'nonexistent' is not exist.")
         /\ calls[i].produced = <<>>
         /\ ~calls[i].committed
         /\ calls[i].stateAtReturn.ref = calls[i].stateAtCall.ref
         /\ LogOf(log, i) = <<>>
         /\ calls[i].handled = 0
         /\ Nested(i) = {}
    /\ Unregistered(i) =>
         /\ calls[i].logged = <<>>
         /\ calls[i].error = ""
         /\ calls[i].produced = <<>>
         /\ ~calls[i].committed
         /\ calls[i].stateAtReturn.ref = calls[i].stateAtCall.ref
         /\ LogOf(log, i) = <<>>
         /\ calls[i].handled = 0
         /\ Nested(i) = {}
         /\ \A t \in timers : t.call /= i

\* store.dispatch('nonexistent') has written its diagnostic with a listener
\* subscribed, after a commit
C31_Witness ==
  \E i \in DOMAIN calls :
    /\ calls[i].returned /\ calls[i].byName /\ calls[i].action = "nonexistent"
    /\ calls[i].logged = <<"The action 'nonexistent' is not exist.">>
    /\ listeners /= <<>>
    /\ state.ref /= initialState.ref

\* a plain dispatch that committed while listener T was in the sequence
ListenerThrew(i) ==
  /\ Plain(i) /\ calls[i].committed
  /\ \E k \in DOMAIN calls[i].listenersAtCommit : calls[i].listenersAtCommit[k] = "T"

\* C35: when a listener throws during the notification of a plain dispatch,
\* the new state stays committed (getState() returns it), the listeners after
\* the throwing one are not invoked for that commit, and the promise of the
\* dispatch is rejected with the listener's error, the call of dispatch
\* itself returning its promise
C35_ThrowingListenerRejects ==
  \A i \in DOMAIN calls :
    ListenerThrew(i) =>
      LET at == indexOf(calls[i].listenersAtCommit, "T")
      IN /\ calls[i].nextState.ref /= calls[i].stateAtCall.ref
         /\ calls[i].stateAtReturn = calls[i].nextState
         /\ state = calls[i].nextState
         /\ Invoked(i) = SubSeq(calls[i].listenersAtCommit, 1, at)
         /\ calls[i].returned
         /\ calls[i].promiseAtReturn = "rejected"
         /\ calls[i].promise = "rejected"
         /\ calls[i].error = ListenerError

\* dispatch('increaseA') with the listeners <<T, L1>>: T was invoked, L1 was
\* not, the state is the new one and the promise is rejected
C35_Witness ==
  \E i \in DOMAIN calls :
    /\ ListenerThrew(i)
    /\ calls[i].listenersAtCommit = <<"T", "L1">>
    /\ Invoked(i) = <<"T">>
    /\ state = calls[i].nextState /\ state.a = 2
    /\ calls[i].promise = "rejected" /\ calls[i].error = ListenerError

\* a call that is under observation before and after a step
StillObserved(i) ==
  /\ i \in DOMAIN calls /\ i \in DOMAIN calls'
  /\ (made' = made \/ ~Over(World, i))

\* C32 as stated: the promise of every dispatch is resolved on the unknown,
\* the plain and the direct path and rejected on the unregistered-handler path
C32_SettledByPathAlone ==
  \A i \in DOMAIN calls :
    calls[i].returned =>
      /\ calls[i].path \in {"unknown", "plain", "direct"} => calls[i].promise = "resolved"
      /\ Unregistered(i) => calls[i].promise = "rejected"

\* what a returned call's promise is when dispatch returns
SettledAtReturn(i) ==
  /\ calls[i].path = "unknown" => calls[i].promiseAtReturn = "resolved"
  /\ calls[i].path \in {"plain", "direct"} =>
       calls[i].promiseAtReturn =
         IF Throwing(i) \/ calls[i].thrown /= "" THEN "rejected" ELSE "resolved"
  /\ Unregistered(i) => calls[i].promiseAtReturn = "rejected"
  /\ calls[i].promiseAtReturn = "pending" =>
       /\ Handled(i)
       /\ calls[i].hp /= "none"
  /\ calls[i].promise = "pending" =>
       /\ calls[i].promiseAtReturn = "pending"
       /\ calls[i].hp = "pending" \/ MicrotaskPending
  /\ calls[i].promise /= "pending" /\ calls[i].promiseAtReturn = "pending" =>
       calls[i].promise = (IF calls[i].hp = "resolved" THEN "resolved" ELSE "rejected")

\* a settled promise stays as it settled
SettledOnce ==
  \A i \in DOMAIN calls :
    (StillObserved(i) /\ calls[i].promise /= "pending") =>
      /\ calls'[i].promise = calls[i].promise
      /\ calls'[i].error = calls[i].error

\* C32 as amended: the promise of a dispatch is settled exactly once on every
\* path: resolved on the unknown-name path; on the plain and the direct path
\* resolved when the action function and the listeners return and rejected
\* when one of them throws; rejected on the unregistered-handler path; on the
\* registered-handler path it settles, as the handler's promise did, once the
\* handler's promise has settled (a pending promise of dispatch whose handler's
\* promise is not pending leads to there being none such), and it is pending
\* only while that promise is pending or its reaction is queued
C32_SettledOnEveryPath ==
  /\ [](\A i \in DOMAIN calls : calls[i].returned => SettledAtReturn(i))
  /\ [][SettledOnce]_vars
  /\ (\E i \in DOMAIN calls : calls[i].promise = "pending" /\ calls[i].hp /= "pending")
       ~> (\A i \in DOMAIN calls : calls[i].promise = "pending" => calls[i].hp = "pending")

\* the promise of dispatch('rxIncreaseA') was pending when dispatch returned
\* and is resolved now that the observable has completed, while the promise
\* of a dispatch of 'failing' made meanwhile is rejected
C32_Witness ==
  \E i, j \in DOMAIN calls :
    /\ RxIncrease(i) /\ calls[i].promiseAtReturn = "pending"
    /\ calls[i].hp = "resolved" /\ calls[i].promise = "resolved"
    /\ Throwing(j) /\ calls[j].parent = 0 /\ calls[j].promise = "rejected"

\* what a store operation leaves as it was
SameState(W, V) == V.state = W.state
SameListeners(W, V) == V.listeners = W.listeners
SameHandlers(W, V) == V.actionHandlers = W.actionHandlers
SameActions(W, V) == V.actions = W.actions

\* a dispatch called on W has left V: it has changed neither the listeners,
\* the handlers nor the action map, and the state only by a commit of a call
\* it made
DispatchFrame(W, V) ==
  /\ SameListeners(W, V) /\ SameHandlers(W, V) /\ SameActions(W, V)
  /\ ~SameState(W, V) =>
       \E i \in DOMAIN V.calls \ DOMAIN W.calls :
         V.calls[i].committed /\ V.calls[i].nextState = V.state

\* every operation called on the store as it is now keeps its frame
FrameOfOperations ==
  LET W == Forget(World)
  IN /\ getState(W).w = W /\ getState(W).value = W.state
     /\ \A l \in SettleListeners :
          /\ SameState(W, subscribe(W, l)) /\ SameHandlers(W, subscribe(W, l))
          /\ SameActions(W, subscribe(W, l))
          /\ SameState(W, unSubscribe(W, l)) /\ SameHandlers(W, unSubscribe(W, l))
          /\ SameActions(W, unSubscribe(W, l))
     /\ \A name \in HandlerNames, handler \in AllHandlerFns :
          /\ SameState(W, registerActionHandler(W, name, handler))
          /\ SameListeners(W, registerActionHandler(W, name, handler))
          /\ SameActions(W, registerActionHandler(W, name, handler))
     /\ \A name \in SettleNames : DispatchFrame(W, dispatch(W, TRUE, name, NoParams, 0))
     /\ \A fn \in SettleFns : DispatchFrame(W, dispatch(W, FALSE, fn, NoParams, 0))

\* a step that changes the state commits for a call, and changes neither the
\* listeners nor the handlers; a step that changes the listeners leaves the
\* handlers and one that changes the handlers leaves the listeners; no step
\* changes the action map
FrameOfSteps ==
  /\ actions' = actions
  /\ state' /= state =>
       /\ listeners' = listeners /\ actionHandlers' = actionHandlers
       /\ \E i \in DOMAIN calls' :
            /\ calls'[i].committed /\ calls'[i].nextState = state'
            /\ ~StillObserved(i) \/ ~calls[i].committed
  /\ listeners' /= listeners => actionHandlers' = actionHandlers
  /\ actionHandlers' /= actionHandlers => listeners' = listeners

\* C33: getState, subscribe, unSubscribe and registerActionHandler never
\* change the stored state reference; dispatch never changes the listener
\* sequence, the handler registry or the action map; subscribe and
\* unSubscribe never change the handler registry and registerActionHandler
\* never changes the listener sequence; the stored state reference changes
\* only in the commit step of a dispatch
C33_FrameConditions == []FrameOfOperations /\ [][FrameOfSteps]_vars

\* a dispatch has committed with a listener subscribed and a handler
\* registered, and the listener is still subscribed and the handler registered
C33_Witness ==
  /\ listeners = <<"L1">>
  /\ actionHandlers["rx"] = "rxHandler"
  /\ \E i \in DOMAIN calls :
       /\ calls[i].committed /\ calls[i].listenersAtCommit = <<"L1">>
       /\ calls[i].nextState = state /\ state.ref /= initialState.ref
       /\ calls[i].parent /= 0 /\ calls[calls[i].parent].handler = "rxHandler"

\* a dispatch of an action function that writes nothing to its draft
NoOp(i) ==
  /\ calls[i].path \in {"plain", "direct"}
  /\ LET r == ApplyAction(FnOf(i), calls[i].stateAtCall, calls[i].params)
     IN ~r.threw /\ r.a = calls[i].stateAtCall.a /\ r.c = calls[i].stateAtCall.c

\* C34: in the earlier Store a dispatch whose action mutates nothing never
\* changes the stored state and never notifies a listener, whatever other
\* dispatches are made before it finishes: an async action that writes
\* nothing and finishes after another dispatch has committed does not put
\* the older state back
C34_NoOpNeverCommits ==
  \A i \in DOMAIN calls :
    NoOp(i) => ~calls[i].committed /\ LogOf(log, i) = <<>>

\* the calls that committed; with every call under observation a call that
\* committed earlier has the smaller identity
Commits == {i \in DOMAIN calls : calls[i].committed}

\* where in the log listener l was invoked for the commit of call i, and
\* where anyone was
NotifiedAt(l, i) == {k \in DOMAIN log : log[k].listener = l /\ log[k].call = i}
EntriesOf(i) == {k \in DOMAIN log : log[k].call = i}

\* two notifications of one listener for different commits with none of its
\* notifications between them
Successive(k1, k2) ==
  /\ k1 < k2 /\ log[k1].listener = log[k2].listener /\ log[k1].call /= log[k2].call
  /\ \A k \in (k1 + 1)..(k2 - 1) : log[k].listener /= log[k1].listener

\* C36 as stated: for any two commits, the one made by a re-entrant dispatch
\* during the notification of the other included, each listener is invoked
\* for the earlier before it is invoked for the later, and the previousState
\* of each notification is the state the listener saw committed at its
\* notification before
C36_CommitOrder ==
  /\ \A i, j \in Commits :
       i < j => \A l \in OrderListeners :
                  \A k1 \in NotifiedAt(l, i), k2 \in NotifiedAt(l, j) : k1 < k2
  /\ \A k1, k2 \in DOMAIN log :
       Successive(k1, k2) => log[k2].prevState = log[k1].getState

\* the commit of j was made by a dispatch from a listener during the
\* notification of the commit of i
Reentrant(i, j) == i \in Commits /\ j \in Commits /\ calls[j].parent = i

\* how many listeners the loop of call i had invoked when log entry k was made
LoopIndex(i, k) == Cardinality({m \in EntriesOf(i) : m <= k})

\* the listener loop of i had invoked this many listeners when j was dispatched
DispatchedAfter(i, j) ==
  Cardinality({m \in EntriesOf(i) : \A k \in EntriesOf(j) : m < k})

\* the second notification is for the commit made next after the commit of
\* the first
NextCommit(k1, k2) ==
  /\ log[k1].call < log[k2].call
  /\ \A c \in Commits : ~(log[k1].call < c /\ c < log[k2].call)

\* C36 as amended: listeners observe the commits in commit order except after
\* a re-entrant dispatch: for two commits of which the later was not made
\* during the notification of the earlier, each listener is invoked for the
\* earlier before it is invoked for the later; when the later was made by a
\* dispatch from a listener during the notification of the earlier, the
\* listeners up to the dispatching one are invoked for the earlier first and
\* each listener after it in the sequence is invoked for the later commit
\* before it is invoked for the earlier; the previousState of a notification
\* is the state the listener saw committed at its notification before when
\* that notification was for the commit made immediately before
C36_CommitOrderBrokenByReentrance ==
  /\ \A i, j \in Commits :
       (i < j /\ ~Reentrant(i, j)) =>
         \A l \in OrderListeners :
           \A k1 \in NotifiedAt(l, i), k2 \in NotifiedAt(l, j) : k1 < k2
  /\ \A i, j \in Commits :
       (Reentrant(i, j) /\ EntriesOf(j) /= {}) =>
         LET p == DispatchedAfter(i, j)
         IN /\ p >= 1 /\ calls[i].listenersAtCommit[p] \in ReentrantIds
            /\ Invoked(i) = calls[i].listenersAtCommit
            /\ \A k1 \in EntriesOf(i), k2 \in EntriesOf(j) :
                 (k1 < k2) <=> (LoopIndex(i, k1) <= p)
  /\ \A k1, k2 \in DOMAIN log :
       (Successive(k1, k2) /\ NextCommit(k1, k2)) =>
         log[k2].prevState = log[k1].getState

\* listeners R, L1 and dispatch('increaseA'): R dispatches toggleC while it is
\* notified, L1 is notified of toggleC and then of increaseA, whose
\* previousState is not the state L1 saw at its notification of toggleC
C36_Witness ==
  \E i, j \in Commits :
    /\ Reentrant(i, j)
    /\ calls[i].listenersAtCommit = <<"R", "L1">>
    /\ \E k1 \in NotifiedAt("L1", j), k2 \in NotifiedAt("L1", i) :
         /\ k1 < k2
         /\ log[k2].prevState /= log[k1].getState
    /\ \E k1 \in NotifiedAt("R", i), k2 \in NotifiedAt("R", j) :
         k1 < k2 /\ log[k2].prevState = log[k1].getState
====
